---- MODULE Spec2Model ----
(***************************************************************************)
(* Lazy execution core of modin's OmniSci-on-Ray frame                     *)
(* (modin/experimental/engines/omnisci_on_ray/frame/data.py,               *)
(* partition_manager.py), the base partition                               *)
(* (modin/engines/base/frame/partition.py) and the engine dispatcher       *)
(* (modin/data_management/factories/dispatcher.py).                        *)
(*                                                                         *)
(* Five specifications share the variables:                                *)
(*   Spec          frames, their plan nodes and materialization            *)
(*   SpecChains    operations on frames that share projection ancestors    *)
(*   SpecPartition one partition class: mask, call queue, length/width     *)
(*   SpecThreads   OmnisciOnRayFrame.__init__ run by concurrent threads    *)
(*   SpecDispatcher the factory selected under changing configuration      *)
(***************************************************************************)
EXTENDS Integers, Sequences, FiniteSets, TLC

(***************************************************************************)
(* Bounds of the model.                                                    *)
(***************************************************************************)
\* frames in the arena at which no further frame-building call is offered
MaxFrames == 4
\* ids spent on frames whose construction failed (the counter has advanced)
MaxDropped == 1
\* partition objects on the heap of SpecPartition
MaxParts == 4
\* SpecThreads: threads that construct frames, and frames each constructs
NumThreads == 3
FramesPerThread == 2
\* SpecChains: frame-building calls and executions after the initial frames
MaxBuilt == 1
MaxExecuted == 1

(***************************************************************************)
(* Python values.                                                          *)
(***************************************************************************)
None == [some |-> FALSE]
Some(x) == [some |-> TRUE, v |-> x]
IsNone(x) == x = None

Range(s) == {s[i] : i \in 1..Len(s)}
Contains(s, x) == \E i \in 1..Len(s) : s[i] = x

VARIABLES
    frames,       \* arena of OmnisciOnRayFrame objects, in creation order
    next_id,      \* OmnisciOnRayFrame._next_id[0]
    parts,        \* heap of partition objects, index = object identity
    index_reads,  \* history: per frame, how often _build_index_cache read the index
    registered,   \* history: per partition, how often put_to_omnisci registered it
    last,         \* how the last call ended: "ok" or the exception it raised;
                  \* in SpecPartition the last call itself (see Call)
    threads,      \* SpecThreads: per thread, position inside __init__ and locals
    made,         \* SpecThreads: the ids handed out, in order of assignment
    handles,      \* the frames a caller holds: the ones a call returned to it
    config,       \* modin.config: the values of Backend, Engine, IsExperimental
    __engine,     \* EngineDispatcher.__engine: the selected factory class
    io_cls        \* StubFactory.io_cls: the factory name its StubIoEngine reports

vars == <<frames, next_id, parts, index_reads, registered, last,
          threads, made, handles, config, __engine, io_cls>>

(***************************************************************************)
(* modin.config, the factories module and str.format, as the dispatcher    *)
(* uses them.                                                              *)
(***************************************************************************)
Backends == {"Pandas", "Omnisci"}
Engines == {"Ray", "Python", "Dask"}
\* the factory classes the factories module defines
Factories == {"PandasOnRayFactory", "PandasOnPythonFactory", "PandasOnDaskFactory",
              "ExperimentalPandasOnRayFactory", "ExperimentalOmnisciOnRayFactory"}
\* the configuration a process starts with
DefaultConfig == [Backend |-> "Pandas", Engine |-> "Ray", IsExperimental |-> FALSE]
get_current_backend(cfg) ==
    (IF cfg.IsExperimental THEN "Experimental" ELSE "") \o cfg.Backend \o "On" \o cfg.Engine

\* A format string is a sequence of literal pieces and replacement fields;
\* the formatted message is kept as the sequence of its pieces.
Lit(text) == [field |-> FALSE, text |-> text, n |-> 0]
Field(n) == [field |-> TRUE, text |-> "", n |-> n]
format(template, args) ==
    [i \in 1..Len(template) |->
        IF template[i].field THEN args[template[i].n + 1] ELSE template[i].text]

(***************************************************************************)
(* StubIoEngine, StubFactory, EngineDispatcher (dispatcher.py)             *)
(***************************************************************************)
\* how a call of the dispatcher ended: op is the method, exc "ok" or the
\* exception raised, msg the exception's message, prepared the factories
\* whose prepare() the call invoked
Outcome(op, exc, msg, prepared) == [op |-> op, exc |-> exc, msg |-> msg, prepared |-> prepared]

\* StubIoEngine.__init__: self.factory_name
StubIoEngine(factory_name) == IF factory_name = "" THEN "Unknown" ELSE factory_name
\* StubIoEngine.__getattr__(name)(...): the stub raises
stub(factory_name, name) ==
    Outcome(name, "NotImplementedError",
            <<"Method ", factory_name, ".", name, " is not implemented">>, <<>>)

ExperimentalOnlyMsg ==
    <<Field(0), Lit(" on "), Field(1),
      Lit(" is only accessible through the experimental API."), Lit("Run "),
      Lit("import modin.experimental.pandas as pd"), Lit(" to use "),
      Field(0), Lit(" on "), Field(1), Lit(".")>>
CannotFindMsg ==
    <<Lit("Cannot find a factory for partition '"), Field(0),
      Lit("' and execution engine '"), Field(1),
      Lit("'. Potential reason might be incorrect environment variable value for "),
      Lit("MODIN_BACKEND"), Lit(" or "), Lit("MODIN_ENGINE")>>

\* _update_engine that selects the stub factory before it looks at the mode.
_update_engine_stub_first(cfg) ==
    LET factory_name == get_current_backend(cfg) \o "Factory" IN
    IF factory_name \in Factories
    THEN /\ __engine' = factory_name
         /\ io_cls' = io_cls
         /\ last' = Outcome("_update_engine", "ok", <<>>, <<factory_name>>)
    ELSE /\ __engine' = "StubFactory"
         /\ io_cls' = StubIoEngine(factory_name)
         /\ IF ~cfg.IsExperimental
            THEN LET msg == IF ("Experimental" \o factory_name) \in Factories
                            THEN ExperimentalOnlyMsg ELSE CannotFindMsg
                 IN  last' = Outcome("_update_engine", "FactoryNotFoundError",
                                     format(msg, <<cfg.Backend, cfg.Engine>>), <<>>)
            ELSE last' = Outcome("_update_engine", "ok", <<>>, <<>>)

\* EngineDispatcher._update_engine under the configuration cfg
_update_engine(cfg) ==
    LET factory_name == get_current_backend(cfg) \o "Factory" IN
    IF factory_name \in Factories
    THEN \* else branch of the try: the factory was found
         /\ __engine' = factory_name
         /\ io_cls' = io_cls
         /\ last' = Outcome("_update_engine", "ok", <<>>, <<factory_name>>)
    ELSE IF ~cfg.IsExperimental
    THEN LET msg == IF ("Experimental" \o factory_name) \in Factories
                    THEN ExperimentalOnlyMsg ELSE CannotFindMsg
         IN  /\ UNCHANGED <<__engine, io_cls>>
             /\ last' = Outcome("_update_engine", "FactoryNotFoundError",
                                 format(msg, <<cfg.Backend, cfg.Engine>>), <<>>)
    ELSE \* StubFactory.set_failing_name(factory_name)
         /\ __engine' = "StubFactory"
         /\ io_cls' = StubIoEngine(factory_name)
         /\ last' = Outcome("_update_engine", "ok", <<>>, <<>>)

\* EngineDispatcher.<name>(...): cls.__engine._<name>(...), which the factory
\* hands to its io_cls
Dispatch(name) ==
    /\ last' = IF __engine = "StubFactory" THEN stub(io_cls, name)
               ELSE Outcome(name, "ok", <<>>, <<>>)
    /\ UNCHANGED <<config, __engine, io_cls>>

\* the dispatcher of a process whose modules were imported with the default
\* configuration
DispatcherStart ==
    /\ config = DefaultConfig
    /\ __engine = "PandasOnRayFactory"
    /\ io_cls = StubIoEngine("")

(***************************************************************************)
(* pandas Series of dtypes (OmnisciOnRayFrame._dtypes): the dtype of each  *)
(* physical column, looked up by label.                                    *)
(***************************************************************************)
SeriesOf(labels, values) ==
    [i \in 1..Len(labels) |-> [name |-> labels[i], dtype |-> values[i]]]
HasLabel(series, c) == \E i \in 1..Len(series) : series[i].name = c
Lookup(series, c) ==
    series[CHOOSE i \in 1..Len(series) :
              /\ series[i].name = c
              /\ \A j \in 1..(i - 1) : series[j].name # c].dtype
SeriesSelect(series, labels) ==
    [i \in 1..Len(labels) |-> [name |-> labels[i], dtype |-> Lookup(series, labels[i])]]
SeriesToList(series) == [i \in 1..Len(series) |-> series[i].dtype]
ListArg(dtypes) == [list |-> TRUE, v |-> dtypes]
SeriesArg(series) == [list |-> FALSE, v |-> series]

(***************************************************************************)
(* Plan nodes (df_algebra): a node names its input frames by their place   *)
(* in the arena and never changes after it is built.                       *)
(***************************************************************************)
FrameNode(f) == [kind |-> "FrameNode", input |-> <<>>, modin_frame |-> f]
MaskNode(base, row_indices, row_numeric_idx, col_indices) ==
    [kind |-> "MaskNode", input |-> <<base>>, row_indices |-> row_indices,
     row_numeric_idx |-> row_numeric_idx, col_indices |-> col_indices]
TransformNode(base, exprs, fetch_index) ==
    [kind |-> "TransformNode", input |-> <<base>>, exprs |-> exprs,
     fetch_index |-> fetch_index]
JoinNode(left, right, how, on, sort, suffixes) ==
    [kind |-> "JoinNode", input |-> <<left, right>>, how |-> how, on |-> on,
     sort |-> sort, suffixes |-> suffixes]
GroupbyAggNode(base, by, agg, groupby_opts) ==
    [kind |-> "GroupbyAggNode", input |-> <<base>>, by |-> by, agg |-> agg,
     groupby_opts |-> groupby_opts]
UnionNode(aligned) == [kind |-> "UnionNode", input |-> aligned]

(***************************************************************************)
(* OmnisciOnRayFrame.__init__                                              *)
(***************************************************************************)
TableCols(columns, index_cols) ==
    IF IsNone(index_cols) THEN columns ELSE index_cols.v \o columns

\* assert len(dtypes) == len(self._table_cols)
CtorAssert(columns, dtypes, index_cols) ==
    Len(dtypes.v) = Len(TableCols(columns, index_cols))

\* str(n) of an int: its decimal text
str(n) == ToString(n)

\* The frame object built at arena place self with counter value id.
__init__(self, id, partitions, index, columns, dtypes, op, index_cols) ==
    [id          |-> str(id),
     op          |-> IF IsNone(op) THEN FrameNode(self) ELSE op.v,
     index_cols  |-> index_cols,
     partitions  |-> partitions,
     index_cache |-> index,
     columns     |-> columns,
     table_cols  |-> TableCols(columns, index_cols),
     dtypes      |-> IF dtypes.list
                     THEN SeriesOf(TableCols(columns, index_cols), dtypes.v)
                     ELSE dtypes.v]

FrameIds == 1..Len(frames)


\* A constructor that hands the partitions to the engine as soon as the
\* frame is built (eager evaluation).
ConstructEager(name, f, columns, dtypes, op, index_cols) ==
    /\ next_id' = next_id + 1
    /\ frames' = Append(frames,
           __init__(Len(frames) + 1, next_id, None, None, columns, dtypes, Some(op), index_cols))
    /\ index_reads' = Append(index_reads, 0)
    /\ handles' = handles \cup {Len(frames) + 1}
    /\ last' = "ok"
    /\ parts' = [p \in 1..Len(parts) |-> [parts[p] EXCEPT !.frame_id = Some(p)]]
    /\ UNCHANGED <<registered, threads, made, config, __engine, io_cls>>

\* self.__constructor__(columns=..., dtypes=..., op=..., index_cols=...) as the
\* last statement of operation name on frame f: the id counter advances before
\* the assertion on the dtypes is reached.
Construct(name, f, columns, dtypes, op, index_cols) ==
    LET self == Len(frames) + 1 IN
    /\ next_id' = next_id + 1
    /\ IF CtorAssert(columns, dtypes, index_cols)
       THEN /\ frames' = Append(frames,
                   __init__(self, next_id, None, None, columns, dtypes, Some(op), index_cols))
            /\ index_reads' = Append(index_reads, 0)
            /\ handles' = handles \cup {self}
            /\ last' = "ok"
       ELSE /\ UNCHANGED <<frames, index_reads, handles>>
            /\ last' = "AssertionError"
    /\ UNCHANGED <<parts, registered, threads, made, config, __engine, io_cls>>

\* The call raises exc before anything is built.
Raise(name, f, exc) ==
    /\ last' = exc
    /\ UNCHANGED <<frames, next_id, parts, index_reads, registered,
                   threads, made, handles, config, __engine, io_cls>>

(***************************************************************************)
(* OmnisciOnRayFrame.mask                                                  *)
(***************************************************************************)
_dtypes_for_cols(self, new_index, new_columns) ==
    IF ~IsNone(new_index)
    THEN SeriesSelect(frames[self].dtypes, new_index.v \o new_columns)
    ELSE SeriesSelect(frames[self].dtypes, new_columns)

\* self.columns[col_numeric_idx]: positions count from 0
TakeLabels(columns, positions) == [i \in 1..Len(positions) |-> columns[positions[i] + 1]]

\* A mask whose plan node names the frame being built as its own input.
mask_over_itself(self, row_indices, row_numeric_idx, col_indices, col_numeric_idx) ==
    LET new_columns ==
            IF ~IsNone(col_indices) THEN col_indices.v
            ELSE IF ~IsNone(col_numeric_idx)
                 THEN TakeLabels(frames[self].columns, col_numeric_idx.v)
                 ELSE frames[self].columns
        op == MaskNode(Len(frames) + 1, row_indices, row_numeric_idx, new_columns)
        dtypes == _dtypes_for_cols(self, frames[self].index_cols, new_columns)
    IN  IF /\ IsNone(col_indices)
           /\ ~IsNone(col_numeric_idx)
           /\ \E i \in 1..Len(col_numeric_idx.v) :
                  col_numeric_idx.v[i] >= Len(frames[self].columns)
        THEN Raise("mask", self, "IndexError")
        ELSE Construct("mask", self, new_columns, SeriesArg(dtypes), op,
                       frames[self].index_cols)

mask(self, row_indices, row_numeric_idx, col_indices, col_numeric_idx) ==
    LET new_columns ==
            IF ~IsNone(col_indices) THEN col_indices.v
            ELSE IF ~IsNone(col_numeric_idx)
                 THEN TakeLabels(frames[self].columns, col_numeric_idx.v)
                 ELSE frames[self].columns
        op == MaskNode(self, row_indices, row_numeric_idx, new_columns)
        dtypes == _dtypes_for_cols(self, frames[self].index_cols, new_columns)
    IN  IF /\ IsNone(col_indices)
           /\ ~IsNone(col_numeric_idx)
           /\ \E i \in 1..Len(col_numeric_idx.v) :
                  col_numeric_idx.v[i] >= Len(frames[self].columns)
        THEN Raise("mask", self, "IndexError")
        ELSE Construct("mask", self, new_columns, SeriesArg(dtypes), op,
                       frames[self].index_cols)

(***************************************************************************)
(* Expressions (expr): immutable trees, each node with its result dtype.   *)
(***************************************************************************)
PyInt(n) == [some |-> TRUE, t |-> "int", v |-> n]
PyFloat(n) == [some |-> TRUE, t |-> "float", v |-> n]
PyStr(x) == [some |-> TRUE, t |-> "str", str |-> x]
PyList(x) == [some |-> TRUE, t |-> "list", items |-> x]
PyDict(x) == [some |-> TRUE, t |-> "dict", entries |-> x]
IsA(x, t) == x.some /\ x.t = t

\* Literal construction infers the dtype from the literal's native type.
LiteralDtype(val) ==
    IF IsNone(val) THEN "null"
    ELSE IF val.t = "int" THEN "int64"
    ELSE IF val.t = "float" THEN "float64"
    ELSE "object"

InputRefExpr(frame, col, dtype) == [k |-> "ref", frame |-> frame, col |-> col, dtype |-> dtype]
LiteralExpr(val) == [k |-> "lit", val |-> val, dtype |-> LiteralDtype(val)]
OpExpr(op, operands, dtype) == [k |-> "op", op |-> op, operands |-> operands, dtype |-> dtype]

\* numeric widening; a null literal takes the other side's dtype
_get_common_dtype(l, r) ==
    IF l = "null" THEN r
    ELSE IF r = "null" THEN l
    ELSE IF l = "float64" \/ r = "float64" THEN "float64"
    ELSE IF l = r THEN l
    ELSE "object"

CmpOps == {"eq", "ne", "lt", "le", "gt", "ge"}
ExprBinOp(lhs, rhs, op_name) ==
    OpExpr(op_name, <<lhs, rhs>>,
           IF op_name \in CmpOps THEN "bool" ELSE _get_common_dtype(lhs.dtype, rhs.dtype))
is_null(e) == OpExpr("is_null", <<e>>, "bool")
build_if_then_else(cond, then_val, else_val, res_type) ==
    OpExpr("CASE", <<cond, then_val, else_val>>, res_type)
build_dt_expr(part, col_expr) == OpExpr("PG_EXTRACT", <<LiteralExpr(PyStr(part)), col_expr>>, "int64")

\* count/size -> integer, mean -> float, sum/min/max -> the input dtype
_agg_dtype(agg, dtype) ==
    IF agg \in {"count", "size"} THEN "int64"
    ELSE IF agg = "mean" THEN "float64"
    ELSE dtype

\* OmnisciOnRayFrame.ref
ref(self, col) ==
    IF col = "__rowid__" THEN InputRefExpr(self, col, "int64")
    ELSE InputRefExpr(self, col, Lookup(frames[self].dtypes, col))

(***************************************************************************)
(* Ordered dicts of expressions: a sequence of [name, expr] in insertion   *)
(* order; assigning an existing key replaces its value in place.           *)
(***************************************************************************)
DictHas(d, key) == \E i \in 1..Len(d) : d[i].name = key
DictGet(d, key) == d[CHOOSE i \in 1..Len(d) : d[i].name = key].expr
DictSet(d, key, e) ==
    IF DictHas(d, key)
    THEN [i \in 1..Len(d) |-> IF d[i].name = key THEN [name |-> key, expr |-> e] ELSE d[i]]
    ELSE Append(d, [name |-> key, expr |-> e])
DictKeys(d) == [i \in 1..Len(d) |-> d[i].name]
\* {keys[i]: value(i) for i in 1..n}
RECURSIVE DictBuild(_, _, _)
DictBuild(keys, value, n) ==
    IF n = 0 THEN <<>> ELSE DictSet(DictBuild(keys, value, n - 1), keys[n], value[n])

_dtypes_for_exprs(self, new_index, exprs) ==
    (IF ~IsNone(new_index)
     THEN SeriesToList(SeriesSelect(frames[self].dtypes, new_index.v))
     ELSE <<>>)
    \o [i \in 1..Len(exprs) |-> exprs[i].expr.dtype]

(***************************************************************************)
(* OmnisciOnRayFrame.fillna, dt_year                                       *)
(***************************************************************************)
FillnaCond(self, col, value_expr) ==
    LET col_expr == ref(self, col)
        res_type == _get_common_dtype(value_expr.dtype, col_expr.dtype)
    IN  build_if_then_else(is_null(col_expr), value_expr, col_expr, res_type)

\* value of a dict-valued fill for column col
FillValueFor(value, col) == value.entries[CHOOSE i \in 1..Len(value.entries) : value.entries[i].key = col].val
FillHas(value, col) == \E i \in 1..Len(value.entries) : value.entries[i].key = col

FillnaExprs(self, value) ==
    LET cols == frames[self].columns
        one(i) == IF IsA(value, "dict")
                  THEN IF FillHas(value, cols[i])
                       THEN FillnaCond(self, cols[i], LiteralExpr(FillValueFor(value, cols[i])))
                       ELSE ref(self, cols[i])
                  ELSE FillnaCond(self, cols[i], LiteralExpr(value))
    IN  DictBuild(cols, [i \in 1..Len(cols) |-> one(i)], Len(cols))

\* np.isscalar
IsScalar(value) == value.some /\ value.t \in {"int", "float", "str"}

\* fillna without the check of method.
fillna_ignores_method(self, value, method, axis, limit, downcast) ==
    IF axis # PyInt(0) THEN Raise("fillna", self, "NotImplementedError")
    ELSE IF ~IsNone(limit) THEN Raise("fillna", self, "NotImplementedError")
    ELSE IF ~IsNone(downcast) THEN Raise("fillna", self, "NotImplementedError")
    ELSE IF ~(IsA(value, "dict") \/ IsScalar(value))
         THEN Raise("fillna", self, "NotImplementedError")
    ELSE LET exprs == FillnaExprs(self, value)
             new_op == TransformNode(self, exprs, TRUE)
             dtypes == _dtypes_for_exprs(self, frames[self].index_cols, exprs)
         IN  Construct("fillna", self, frames[self].columns, ListArg(dtypes), new_op,
                       frames[self].index_cols)

fillna(self, value, method, axis, limit, downcast) ==
    IF axis # PyInt(0) THEN Raise("fillna", self, "NotImplementedError")
    ELSE IF ~IsNone(limit) THEN Raise("fillna", self, "NotImplementedError")
    ELSE IF ~IsNone(downcast) THEN Raise("fillna", self, "NotImplementedError")
    ELSE IF ~IsNone(method) THEN Raise("fillna", self, "NotImplementedError")
    ELSE IF ~(IsA(value, "dict") \/ IsScalar(value))
         THEN Raise("fillna", self, "NotImplementedError")
    ELSE LET exprs == FillnaExprs(self, value)
             new_op == TransformNode(self, exprs, TRUE)
             dtypes == _dtypes_for_exprs(self, frames[self].index_cols, exprs)
         IN  Construct("fillna", self, frames[self].columns, ListArg(dtypes), new_op,
                       frames[self].index_cols)

dt_year(self) ==
    LET cols == frames[self].columns
        one(i) == build_dt_expr("year", ref(self, cols[i]))
        exprs == DictBuild(cols, [i \in 1..Len(cols) |-> one(i)], Len(cols))
        new_op == TransformNode(self, exprs, TRUE)
        dtypes == _dtypes_for_exprs(self, frames[self].index_cols, exprs)
    IN  Construct("dt_year", self, cols, ListArg(dtypes), new_op, frames[self].index_cols)

(***************************************************************************)
(* OmnisciOnRayFrame.join                                                  *)
(***************************************************************************)
\* [c + suffix for c in columns if c not in on], suffix only on a conflicting name
\* A join that suffixes every non-key column.
JoinSideSuffixAll(columns, on, conflicting, suffix) ==
    LET rest == SelectSeq(columns, LAMBDA c : ~Contains(on, c))
    IN  [i \in 1..Len(rest) |-> rest[i] \o suffix]
JoinSide(columns, on, conflicting, suffix) ==
    LET rest == SelectSeq(columns, LAMBDA c : ~Contains(on, c))
    IN  [i \in 1..Len(rest) |-> IF rest[i] \in conflicting THEN rest[i] \o suffix ELSE rest[i]]
JoinSideDtypes(f, on) ==
    LET rest == SelectSeq(frames[f].columns, LAMBDA c : ~Contains(on, c))
    IN  [i \in 1..Len(rest) |-> Lookup(frames[f].dtypes, rest[i])]

join(self, other, how, on, sort, suffixes) ==
    IF IsNone(on) THEN Raise("join", self, "AssertionError")
    ELSE IF \E i \in 1..Len(on.v) :
               ~(Contains(frames[self].columns, on.v[i]) /\ Contains(frames[other].columns, on.v[i]))
         THEN Raise("join", self, "AssertionError")
    ELSE LET conflicting_list == Range(frames[self].columns) \cap Range(frames[other].columns)
             new_columns == on.v \o JoinSide(frames[self].columns, on.v, conflicting_list, suffixes[1])
                                 \o JoinSide(frames[other].columns, on.v, conflicting_list, suffixes[2])
             new_dtypes == SeriesToList(SeriesSelect(frames[self].dtypes, on.v))
                               \o JoinSideDtypes(self, on.v) \o JoinSideDtypes(other, on.v)
             op == JoinNode(self, other, how, on.v, sort, suffixes)
         IN  Construct("join", self, new_columns, ListArg(new_dtypes), op, None)

(***************************************************************************)
(* OmnisciOnRayFrame._is_projection_of, _is_projection, groupby_agg        *)
(***************************************************************************)
\* A projection test that does not look at which frame the mask is over.
_is_projection_of_any(self, base) ==
    /\ frames[self].op.kind = "MaskNode"
    /\ IsNone(frames[self].op.row_indices)
    /\ IsNone(frames[self].op.row_numeric_idx)

_is_projection_of(self, base) ==
    /\ frames[self].op.kind = "MaskNode"
    /\ frames[self].op.input[1] = base
    /\ IsNone(frames[self].op.row_indices)
    /\ IsNone(frames[self].op.row_numeric_idx)

_is_projection(self) ==
    IF frames[self].op.kind = "MaskNode"
    THEN IsNone(frames[self].op.row_indices) /\ IsNone(frames[self].op.row_numeric_idx)
    ELSE frames[self].op.kind = "TransformNode"

\* the output columns and dtypes the aggregate spec adds, in order
RECURSIVE AggColumnsPlainNames(_, _)
\* Aggregated columns that keep the column's own name for every entry of a
\* list of aggregates.
AggColumnsPlainNames(self, agg) ==
    IF Len(agg.entries) = 0 THEN <<>>
    ELSE LET k == Head(agg.entries).key
             v == Head(agg.entries).val
         IN  (IF IsA(v, "list") THEN [i \in 1..Len(v.items) |-> k] ELSE <<k>>)
             \o AggColumnsPlainNames(self, PyDict(Tail(agg.entries)))
RECURSIVE AggColumns(_, _)
AggColumns(self, agg) ==
    IF IsA(agg, "str")
    THEN LET cols == frames[self].columns IN [i \in 1..Len(cols) |-> cols[i]]
    ELSE IF Len(agg.entries) = 0 THEN <<>>
    ELSE LET k == Head(agg.entries).key
             v == Head(agg.entries).val
             rest == AggColumns(self, PyDict(Tail(agg.entries)))
         IN  (IF IsA(v, "list") THEN [i \in 1..Len(v.items) |-> k \o " " \o v.items[i]] ELSE <<k>>) \o rest
RECURSIVE AggDtypes(_, _)
AggDtypes(self, agg) ==
    IF Len(agg.entries) = 0 THEN <<>>
    ELSE LET k == Head(agg.entries).key
             v == Head(agg.entries).val
             d == Lookup(frames[self].dtypes, k)
             rest == AggDtypes(self, PyDict(Tail(agg.entries)))
         IN  (IF IsA(v, "list") THEN [i \in 1..Len(v.items) |-> _agg_dtype(v.items[i], d)]
              ELSE <<_agg_dtype(v.str, d)>>) \o rest

groupby_agg(self, by, axis, agg, groupby_args) ==
    IF ~by.qc THEN Raise("groupby_agg", self, "NotImplementedError")
    ELSE IF axis # 0 THEN Raise("groupby_agg", self, "NotImplementedError")
    \* by._modin_frame._op.input[0]: a Source node has no input
    ELSE IF Len(frames[by.frame].op.input) = 0 THEN Raise("groupby_agg", self, "AttributeError")
    ELSE LET base == frames[by.frame].op.input[1] IN
         IF ~_is_projection_of(by.frame, base)
         THEN Raise("groupby_agg", self, "NotImplementedError")
         ELSE IF self # base /\ ~_is_projection_of(self, base)
         THEN Raise("groupby_agg", self, "NotImplementedError")
         ELSE IF ~IsNone(groupby_args.level)
         THEN Raise("groupby_agg", self, "NotImplementedError")
         ELSE
         LET groupby_cols == frames[by.frame].columns
             index_cols == IF groupby_args.as_index THEN Some(groupby_cols) ELSE None
             key_columns == IF groupby_args.as_index THEN <<>> ELSE groupby_cols
             key_dtypes == SeriesToList(SeriesSelect(frames[base].dtypes, groupby_cols))
             nonkey == SelectSeq(frames[self].columns, LAMBDA c : ~Contains(groupby_cols, c))
             new_agg == IF IsA(agg, "str")
                        THEN PyDict([i \in 1..Len(nonkey) |-> [key |-> nonkey[i], val |-> agg]])
                        ELSE agg
         IN  IF ~IsA(new_agg, "dict") THEN Raise("groupby_agg", self, "AssertionError")
             ELSE IF \E i \in 1..Len(new_agg.entries) : ~HasLabel(frames[self].dtypes, new_agg.entries[i].key)
             THEN Raise("groupby_agg", self, "KeyError")
             ELSE Construct("groupby_agg", self,
                            key_columns \o AggColumns(self, new_agg),
                            ListArg(key_dtypes \o AggDtypes(self, new_agg)),
                            GroupbyAggNode(base, groupby_cols, new_agg, groupby_args),
                            index_cols)

(***************************************************************************)
(* OmnisciOnRayFrame.reset_index, _set_columns                             *)
(***************************************************************************)
reset_index(self, drop) ==
    IF drop
    THEN LET cols == frames[self].columns
             one(i) == ref(self, cols[i])
             exprs == DictBuild(cols, [i \in 1..Len(cols) |-> one(i)], Len(cols))
         IN  Construct("reset_index", self, cols,
                       ListArg(_dtypes_for_exprs(self, None, exprs)),
                       TransformNode(self, exprs, FALSE), None)
    ELSE IF IsNone(frames[self].index_cols)
         THEN Raise("reset_index", self, "NotImplementedError")
         ELSE LET new_columns == frames[self].table_cols
              IN  Construct("reset_index", self, new_columns,
                            SeriesArg(_dtypes_for_cols(self, None, new_columns)),
                            frames[self].op, None)

Min(a, b) == IF a < b THEN a ELSE b

_set_columns(self, new_columns) ==
    LET cols == frames[self].columns
        n == Min(Len(cols), Len(new_columns))
        one(i) == ref(self, cols[i])
        exprs == DictBuild(new_columns, [i \in 1..n |-> one(i)], n)
    IN  Construct("_set_columns", self, new_columns,
                  ListArg(SeriesToList(frames[self].dtypes)),
                  TransformNode(self, exprs, TRUE), frames[self].index_cols)

(***************************************************************************)
(* sorted() over column names.  Strings have no order in TLA+, so the      *)
(* names the modelled operations can produce are listed in Python's string *)
(* order; an operation that sorts is offered only names of this list.      *)
(***************************************************************************)
NameOrder ==
    <<"__col1__", "__col2__", "__col3__", "__col4__", "__col5__", "__col6__",
      "__col7__", "__col8__", "__index__", "__index___x", "__index___y", "a",
      "a max", "a max_x", "a max_y", "a min", "a min_x", "a min_y", "a sum",
      "a sum_x", "a sum_y", "a_x", "a_x_x", "a_x_y", "a_y", "a_y_x", "a_y_y",
      "b", "b max", "b max_x", "b max_y", "b min", "b min_x", "b min_y",
      "b sum", "b sum_x", "b sum_y", "b_x", "b_x_x", "b_x_y", "b_y", "b_y_x",
      "b_y_y", "c", "c max", "c max_x", "c max_y", "c min", "c min_x",
      "c min_y", "c sum", "c sum_x", "c sum_y", "c_x", "c_x_x", "c_x_y",
      "c_y", "c_y_x", "c_y_y", "x", "x max", "x max_x", "x max_y", "x min",
      "x min_x", "x min_y", "x sum", "x sum_x", "x sum_y", "x_x", "x_x_x",
      "x_x_y", "x_y", "x_y_x", "x_y_y", "y", "y max", "y max_x", "y max_y",
      "y min", "y min_x", "y min_y", "y sum", "y sum_x", "y sum_y", "y_x",
      "y_x_x", "y_x_y", "y_y", "y_y_x", "y_y_y", "z", "z max", "z max_x",
      "z max_y", "z min", "z min_x", "z min_y", "z sum", "z sum_x",
      "z sum_y", "z_x", "z_x_x", "z_x_y", "z_y", "z_y_x", "z_y_y">>
Sortable(names) == \A i \in 1..Len(names) : Contains(NameOrder, names[i])
NameRank(n) == CHOOSE i \in 1..Len(NameOrder) : NameOrder[i] = n
\* sorted(list): duplicates are kept
sorted(names) ==
    LET ranks == {NameRank(names[i]) : i \in 1..Len(names)}
        RECURSIVE go(_)
        go(R) == IF R = {} THEN <<>>
                 ELSE LET r == CHOOSE x \in R : \A y \in R : x <= y
                      IN  SelectSeq(names, LAMBDA n : NameRank(n) = r) \o go(R \ {r})
    IN  go(ranks)

(***************************************************************************)
(* OmnisciOnRayFrame._find_common_projections_base                         *)
(***************************************************************************)
RECURSIVE ProjectionChain(_)
\* bases: self and every frame reached from it while the frame is a projection
ProjectionChain(self) ==
    IF _is_projection(self)
    THEN {self} \cup ProjectionChain(frames[self].op.input[1])
    ELSE {self}
RECURSIVE WalkRhsAnyMask(_, _)
\* A walk of the right operand that also passes masks that restrict rows.
WalkRhsAnyMask(rhs, bases) ==
    IF rhs \notin bases /\ frames[rhs].op.kind \in {"MaskNode", "TransformNode"}
    THEN WalkRhsAnyMask(frames[rhs].op.input[1], bases)
    ELSE rhs
RECURSIVE WalkRhs(_, _)
WalkRhs(rhs, bases) ==
    IF rhs \notin bases /\ _is_projection(rhs)
    THEN WalkRhs(frames[rhs].op.input[1], bases)
    ELSE rhs

_find_common_projections_base(self, rhs) ==
    LET bases == ProjectionChain(self)
        r == WalkRhs(rhs, bases)
    IN  IF r \in bases THEN Some(r) ELSE None

(***************************************************************************)
(* OmnisciOnRayFrame._translate_exprs_to_base, with the mappers of expr    *)
(***************************************************************************)
RECURSIVE ExprFrames(_)
\* expr.collect_frames
ExprFrames(e) ==
    IF e.k = "ref" THEN {e.frame}
    ELSE IF e.k = "lit" THEN {}
    ELSE UNION {ExprFrames(e.operands[i]) : i \in 1..Len(e.operands)}
DictFrames(exprs) == UNION {ExprFrames(exprs[i].expr) : i \in 1..Len(exprs)}

\* a reference to a mapped frame can be rewritten: DirectMapper needs the
\* column in the input frame, TransformMapper needs it in the node's exprs
RECURSIVE CanTranslate(_, _)
CanTranslate(e, mapped) ==
    IF e.k = "ref"
    THEN \/ e.frame \notin mapped
         \/ IF frames[e.frame].op.kind = "MaskNode"
            THEN e.col = "__rowid__" \/ HasLabel(frames[frames[e.frame].op.input[1]].dtypes, e.col)
            ELSE DictHas(frames[e.frame].op.exprs, e.col)
    ELSE IF e.k = "lit" THEN TRUE
    ELSE \A i \in 1..Len(e.operands) : CanTranslate(e.operands[i], mapped)

RECURSIVE translate_input(_, _)
\* expr.translate_input(mapper): a Mask frame's column becomes the same column
\* of its input (DirectMapper), a Transform frame's column becomes that node's
\* own expression for it (TransformMapper)
translate_input(e, mapped) ==
    IF e.k = "ref"
    THEN IF e.frame \notin mapped THEN e
         ELSE IF frames[e.frame].op.kind = "MaskNode"
              THEN ref(frames[e.frame].op.input[1], e.col)
              ELSE DictGet(frames[e.frame].op.exprs, e.col)
    ELSE IF e.k = "lit" THEN e
    ELSE [e EXCEPT !.operands = [i \in 1..Len(e.operands) |-> translate_input(e.operands[i], mapped)]]

\* One iteration of the while loop over the frames fs still referenced
\* besides base: the exceptions it can raise (which one depends on the
\* iteration order of the set), or the rewritten expressions and the frames
\* they reference besides base.
TranslatePass(new_exprs, fs, base) ==
    LET no_input == {f \in fs : Len(frames[f].op.input) = 0}
        bad_kind == {f \in fs : /\ Len(frames[f].op.input) > 0
                                /\ frames[f].op.kind \notin {"MaskNode", "TransformNode"}}
        errs == (IF no_input # {} THEN {"AttributeError"} ELSE {})
                \cup (IF bad_kind # {} THEN {"AssertionError"} ELSE {})
    IN  IF errs # {} THEN [errs |-> errs, exprs |-> <<>>, frames |-> {}]
        ELSE IF \E i \in 1..Len(new_exprs) : ~CanTranslate(new_exprs[i].expr, fs)
        THEN [errs |-> {"KeyError"}, exprs |-> <<>>, frames |-> {}]
        ELSE LET step == [i \in 1..Len(new_exprs) |->
                             [name |-> new_exprs[i].name,
                              expr |-> translate_input(new_exprs[i].expr, fs)]]
             IN  [errs |-> {}, exprs |-> step,
                  frames |-> ({frames[f].op.input[1] : f \in fs} \cup DictFrames(step))
                             \ {base}]

RECURSIVE TranslateLoop(_, _, _)
\* the while loop.  The result is [errs |-> {}, exprs |-> ...] or the
\* exceptions the loop can raise.
TranslateLoop(new_exprs, fs, base) ==
    IF fs = {} THEN [errs |-> {}, exprs |-> new_exprs]
    ELSE LET pass == TranslatePass(new_exprs, fs, base)
         IN  IF pass.errs # {} THEN [errs |-> pass.errs, exprs |-> <<>>]
             ELSE TranslateLoop(pass.exprs, pass.frames, base)

RECURSIVE LoopRounds(_, _, _, _)
\* the iterations the while loop makes before it ends, or -1 when it makes
\* more than fuel
LoopRounds(new_exprs, fs, base, fuel) ==
    IF fs = {} THEN 0
    ELSE IF fuel = 0 THEN -1
    ELSE LET pass == TranslatePass(new_exprs, fs, base)
         IN  IF pass.errs # {} THEN 1
             ELSE LET rest == LoopRounds(pass.exprs, pass.frames, base, fuel - 1)
                  IN  IF rest < 0 THEN -1 ELSE rest + 1

\* A rewrite that ends after the first iteration of the loop.
_translate_exprs_to_base_one_pass(exprs, base) ==
    LET fs == DictFrames(exprs) \ {base}
    IN  IF fs = {} THEN [errs |-> {}, exprs |-> exprs]
        ELSE LET pass == TranslatePass(exprs, fs, base)
             IN  [errs |-> pass.errs, exprs |-> pass.exprs]

_translate_exprs_to_base(exprs, base) ==
    TranslateLoop(exprs, DictFrames(exprs) \ {base}, base)

(***************************************************************************)
(* OmnisciOnRayFrame._index_width, _union_all                              *)
(***************************************************************************)
_index_width(self) ==
    IF IsNone(frames[self].index_cols) THEN 1 ELSE Len(frames[self].index_cols.v)

RECURSIVE MinIndexWidth(_)
MinIndexWidth(fs) ==
    IF Len(fs) = 1 THEN _index_width(fs[1])
    ELSE Min(_index_width(fs[1]), MinIndexWidth(Tail(fs)))

RECURSIVE UnionColsMap(_, _, _)
\* new_cols_map after the frames of others: a Series in insertion order
UnionColsMap(map, others, join_kind) ==
    IF Len(others) = 0 THEN map
    ELSE LET frame == Head(others)
             extra == SelectSeq(frames[frame].columns, LAMBDA c : ~HasLabel(map, c))
             next == IF join_kind = "inner"
                     THEN SelectSeq(map, LAMBDA e : Contains(frames[frame].columns, e.name))
                     ELSE map \o [i \in 1..Len(extra) |->
                                     [name |-> extra[i], dtype |-> Lookup(frames[frame].dtypes, extra[i])]]
         IN  UnionColsMap(next, Tail(others), join_kind)

SubSeqTo(s, n) == SubSeq(s, 1, Min(n, Len(s)))
\* Python truthiness of _index_cols: neither None nor an empty list
HasIndexCols(frame) == ~IsNone(frames[frame].index_cols) /\ Len(frames[frame].index_cols.v) > 0

\* One pass of the alignment loop for frame: the constructor arguments of the
\* aligned frame, and whether the 'unexpected index width' assertion held.
AlignFrame(frame, new_columns, new_dtypes, ignore_index, index_width) ==
    LET icols == frames[frame].index_cols
        aligned_index ==
            IF ignore_index THEN None
            ELSE IF HasIndexCols(frame) THEN Some(SubSeqTo(icols.v, index_width + 1))
            ELSE Some(<<"__index__">>)
        aligned_index_dtypes ==
            IF ignore_index THEN <<>>
            ELSE IF HasIndexCols(frame)
                 THEN SeriesToList(SeriesSelect(frames[frame].dtypes, aligned_index.v))
                 ELSE <<"int64">>
        index_exprs ==
            IF ignore_index THEN <<>>
            ELSE IF HasIndexCols(frame)
                 THEN DictBuild(icols.v, [i \in 1..index_width |-> ref(frame, icols.v[i])],
                                index_width)
                 ELSE <<[name |-> "__index__", expr |-> ref(frame, "__rowid__")]>>
        RECURSIVE data_exprs(_)
        data_exprs(n) ==
            IF n = 0 THEN index_exprs
            ELSE DictSet(data_exprs(n - 1), new_columns[n],
                         IF Contains(frames[frame].table_cols, new_columns[n])
                         THEN ref(frame, new_columns[n])
                         ELSE LiteralExpr(None))
    IN  [assert_ok  |-> ignore_index \/ HasIndexCols(frame) \/ index_width = 1,
         columns    |-> new_columns,
         dtypes     |-> ListArg(aligned_index_dtypes \o new_dtypes),
         op         |-> TransformNode(frame, data_exprs(Len(new_columns)), FALSE),
         index_cols |-> aligned_index]

_union_all(name, self, axis, other_modin_frames, join_kind, sort, ignore_index) ==
    LET all == <<self>> \o other_modin_frames
        self_map == SeriesSelect(frames[self].dtypes, frames[self].columns)
        new_cols_map == UnionColsMap(self_map, other_modin_frames, join_kind)
        keys == [i \in 1..Len(new_cols_map) |-> new_cols_map[i].name]
        new_columns == IF sort THEN sorted(keys) ELSE keys
        index_width == MinIndexWidth(all)
        new_dtypes == IF sort
                      THEN [i \in 1..Len(new_columns) |-> Lookup(new_cols_map, new_columns[i])]
                      ELSE SeriesToList(new_cols_map)
        al == [i \in 1..Len(all) |->
                  AlignFrame(all[i], new_columns, new_dtypes, ignore_index, index_width)]
        \* the first pass of the loop that fails, 0 if none does
        bad == {i \in 1..Len(all) :
                   ~al[i].assert_ok \/ ~CtorAssert(al[i].columns, al[i].dtypes, al[i].index_cols)}
        first_bad == IF bad = {} THEN 0 ELSE CHOOSE i \in bad : \A j \in bad : i <= j
        n == Len(frames)
        aligned_frames ==
            [i \in 1..Len(all) |->
                __init__(n + i, next_id + i - 1, None, None, al[i].columns, al[i].dtypes,
                         Some(al[i].op), al[i].index_cols)]
        new_op == UnionNode([i \in 1..Len(all) |-> n + i])
        res_dtypes == SeriesArg(aligned_frames[1].dtypes)
        res_index == aligned_frames[1].index_cols
        res_ok == CtorAssert(new_columns, res_dtypes, res_index)
        res == __init__(n + Len(all) + 1, next_id + Len(all), None, None, new_columns,
                        res_dtypes, Some(new_op), res_index)
    IN  IF first_bad # 0
        THEN \* the aligned frames built so far are dropped; their ids are spent
             /\ next_id' = next_id + (IF al[first_bad].assert_ok THEN first_bad ELSE first_bad - 1)
             /\ last' = "AssertionError"
             /\ UNCHANGED <<frames, parts, index_reads, registered, threads, made, handles, config, __engine, io_cls>>
        ELSE /\ next_id' = next_id + Len(all) + 1
             /\ IF res_ok
                THEN /\ frames' = frames \o aligned_frames \o <<res>>
                     /\ index_reads' = index_reads \o [i \in 1..(Len(all) + 1) |-> 0]
                     /\ handles' = handles \cup {n + Len(all) + 1}
                     /\ last' = "ok"
                ELSE /\ UNCHANGED <<frames, index_reads, handles>>
                     /\ last' = "AssertionError"
             /\ UNCHANGED <<parts, registered, threads, made, config, __engine, io_cls>>

(***************************************************************************)
(* OmnisciOnRayFrame._concat                                               *)
(***************************************************************************)
RECURSIVE ConcatBase(_, _)
\* base = base._find_common_projections_base(frame) over the other frames
ConcatBase(base, others) ==
    IF Len(others) = 0 THEN Some(base)
    ELSE LET b == _find_common_projections_base(base, Head(others))
         IN  IF IsNone(b) THEN None ELSE ConcatBase(b.v, Tail(others))

RECURSIVE ConcatCols(_, _, _)
\* the columns of frame from position i on, renamed when empty or taken
ConcatCols(exprs, frame, i) ==
    IF i > Len(frames[frame].columns) THEN exprs
    ELSE LET col == frames[frame].columns[i]
             new_col == IF col = "" \/ DictHas(exprs, col)
                        THEN "__col" \o ToString(Len(exprs)) \o "__"
                        ELSE col
         IN  ConcatCols(DictSet(exprs, new_col, ref(frame, col)), frame, i + 1)
RECURSIVE ConcatExprs(_, _)
ConcatExprs(exprs, others) ==
    IF Len(others) = 0 THEN exprs
    ELSE ConcatExprs(ConcatCols(exprs, Head(others), 1), Tail(others))

_concat(self, axis, other_modin_frames, join_kind, sort, ignore_index) ==
    IF axis = 0
    THEN _union_all("_concat", self, axis, other_modin_frames, join_kind, sort, ignore_index)
    ELSE
    LET base == ConcatBase(self, other_modin_frames) IN
    IF IsNone(base) THEN Raise("_concat", self, "NotImplementedError")
    ELSE
    LET cols == frames[self].columns
        own == DictBuild(cols, [i \in 1..Len(cols) |-> ref(self, cols[i])], Len(cols))
        tr == _translate_exprs_to_base(ConcatExprs(own, other_modin_frames), base.v)
    IN  IF tr.errs # {} THEN \E e \in tr.errs : Raise("_concat", self, e)
        ELSE Construct("_concat", self, DictKeys(tr.exprs),
                       ListArg(_dtypes_for_exprs(self, frames[self].index_cols, tr.exprs)),
                       TransformNode(self, tr.exprs, TRUE), frames[self].index_cols)

(***************************************************************************)
(* OmnisciOnRayFrame.bin_op                                                *)
(***************************************************************************)
\* other: PyInt/PyFloat, PyList of values, [some, t |-> "frame", v |-> frame],
\* or any other value
PyFrame(f) == [some |-> TRUE, t |-> "frame", v |-> f]

bin_op(self, other, op_name, fill_value) ==
    LET cols == frames[self].columns IN
    IF IsA(other, "int") \/ IsA(other, "float")
    THEN LET value_expr == LiteralExpr(other)
             exprs == DictBuild(cols, [i \in 1..Len(cols) |-> ExprBinOp(ref(self, cols[i]), value_expr, op_name)],
                                Len(cols))
         IN  Construct("bin_op", self, cols,
                       ListArg(_dtypes_for_exprs(self, frames[self].index_cols, exprs)),
                       TransformNode(self, exprs, TRUE), frames[self].index_cols)
    ELSE IF IsA(other, "list")
    THEN IF Len(other.items) # Len(cols) THEN Raise("bin_op", self, "ValueError")
         ELSE LET exprs == DictBuild(cols,
                               [i \in 1..Len(cols) |->
                                   ExprBinOp(ref(self, cols[i]), LiteralExpr(other.items[i]), op_name)],
                               Len(cols))
              IN  Construct("bin_op", self, cols,
                            ListArg(_dtypes_for_exprs(self, frames[self].index_cols, exprs)),
                            TransformNode(self, exprs, TRUE), frames[self].index_cols)
    ELSE IF IsA(other, "frame")
    THEN LET base == _find_common_projections_base(self, other.v) IN
         IF IsNone(base) THEN Raise("bin_op", self, "NotImplementedError")
         ELSE
         LET ocols == frames[other.v].columns
             new_columns == sorted(cols \o SelectSeq(ocols, LAMBDA c : ~Contains(cols, c)))
             fill == IF IsNone(fill_value) THEN None ELSE Some(LiteralExpr(fill_value))
             lhs(c) == IF Contains(cols, c) THEN Some(ref(self, c)) ELSE fill
             rhs(c) == IF Contains(ocols, c) THEN Some(ref(other.v, c)) ELSE fill
             one(i) == LET c == new_columns[i] IN
                       IF IsNone(lhs(c)) \/ IsNone(rhs(c)) THEN LiteralExpr(None)
                       ELSE ExprBinOp(lhs(c).v, rhs(c).v, op_name)
             tr == _translate_exprs_to_base(
                       DictBuild(new_columns, [i \in 1..Len(new_columns) |-> one(i)],
                                 Len(new_columns)), base.v)
         IN  IF tr.errs # {} THEN \E e \in tr.errs : Raise("bin_op", self, e)
             ELSE Construct("bin_op", self, new_columns,
                            ListArg(_dtypes_for_exprs(self, frames[self].index_cols, tr.exprs)),
                            TransformNode(base.v, tr.exprs, TRUE), frames[self].index_cols)
    \* no branch is taken: the method ends without a return statement
    ELSE /\ last' = "returned None"
         /\ UNCHANGED <<frames, next_id, parts, index_reads, registered,
                        threads, made, handles, config, __engine, io_cls>>

(***************************************************************************)
(* Partition objects.  data is what the object wraps, call_queue the       *)
(* functions queued on it, frame_id the handle of its table in the         *)
(* external engine (None until it is registered).                          *)
(***************************************************************************)
Partition(data, call_queue, length_cache, width_cache, frame_id) ==
    [data |-> data, call_queue |-> call_queue, length_cache |-> length_cache,
     width_cache |-> width_cache, frame_id |-> frame_id]

(***************************************************************************)
(* OmnisciOnRayFrameManager.run_exec_plan                                  *)
(***************************************************************************)
RECURSIVE CollectFrames(_)
\* plan.collect_frames(): the frames of the Source nodes the plan reaches
CollectFrames(op) ==
    IF op.kind = "FrameNode" THEN {op.modin_frame}
    ELSE UNION {CollectFrames(frames[op.input[i]].op) : i \in 1..Len(op.input)}

PartitionsOf(fs) == UNION {Range(frames[g].partitions.v) : g \in fs}
\* the partitions of the frames fs that have no engine handle get one
RegisterAll(fs) ==
    [p \in 1..Len(parts) |->
        IF p \in PartitionsOf(fs) /\ IsNone(parts[p].frame_id)
        THEN [parts[p] EXCEPT !.frame_id = Some(p)]
        ELSE parts[p]]
\* A count for a run that registers the partitions of fs whether or not
\* they have an engine handle.
CountRegistrationsAgain(fs) ==
    [p \in 1..Len(parts) |->
        IF p \in PartitionsOf(fs) THEN registered[p] + 1 ELSE registered[p]]

CountRegistrations(fs) ==
    [p \in 1..Len(parts) |->
        IF p \in PartitionsOf(fs) /\ IsNone(parts[p].frame_id)
        THEN registered[p] + 1
        ELSE registered[p]]

\* The ways run_exec_plan(self._op, self._index_cols) can end.  A frame with
\* more than one partition stops the loop after the frames that the iteration
\* of the set visited before it; the engine may reject the compiled plan.
run_exec_plan(self) ==
    LET collected == CollectFrames(frames[self].op)
        bad == {g \in collected : Len(frames[g].partitions.v) # 1}
    IN  IF bad # {}
        THEN {[status |-> "NotImplementedError", parts |-> RegisterAll(S),
               registered |-> CountRegistrations(S), res |-> None]
                 : S \in SUBSET (collected \ bad)}
        ELSE {[status |-> IF engine_ok THEN "ok" ELSE "EngineError",
               parts |-> IF engine_ok
                         THEN Append(RegisterAll(collected),
                                     Partition([table |-> self], <<>>, None, None, None))
                         ELSE RegisterAll(collected),
               registered |-> IF engine_ok
                              THEN Append(CountRegistrations(collected), 0)
                              ELSE CountRegistrations(collected),
               res |-> IF engine_ok THEN Some(<<Len(parts) + 1>>) ELSE None]
                 : engine_ok \in BOOLEAN}

(***************************************************************************)
(* OmnisciOnRayFrame._execute, _build_index_cache, _get_index, to_pandas   *)
(***************************************************************************)
\* An _execute that stores the result partitions and keeps the plan node.
ExecOutcomesKeepPlan(self) ==
    IF frames[self].op.kind = "FrameNode"
    THEN {[status |-> "ok", ran |-> FALSE, frame |-> frames[self], parts |-> parts,
           registered |-> registered]}
    ELSE {[status |-> r.status, ran |-> TRUE,
           frame |-> IF r.status = "ok"
                     THEN [frames[self] EXCEPT !.partitions = r.res]
                     ELSE frames[self],
           parts |-> r.parts, registered |-> r.registered]
             : r \in run_exec_plan(self)}

\* An _execute that marks the frame as a Source before it runs the plan.
ExecOutcomesSourceFirst(self) ==
    IF frames[self].op.kind = "FrameNode"
    THEN {[status |-> "ok", ran |-> FALSE, frame |-> frames[self], parts |-> parts,
           registered |-> registered]}
    ELSE {[status |-> r.status, ran |-> TRUE,
           frame |-> IF r.status = "ok"
                     THEN [frames[self] EXCEPT !.partitions = r.res, !.op = FrameNode(self)]
                     ELSE [frames[self] EXCEPT !.op = FrameNode(self)],
           parts |-> r.parts, registered |-> r.registered]
             : r \in run_exec_plan(self)}

\* The ways self._execute() can end: the frame as it is left, the heap, and
\* whether a plan was run.
ExecOutcomes(self) ==
    IF frames[self].op.kind = "FrameNode"
    THEN {[status |-> "ok", ran |-> FALSE, frame |-> frames[self], parts |-> parts,
           registered |-> registered]}
    ELSE {[status |-> r.status, ran |-> TRUE,
           frame |-> IF r.status = "ok"
                     THEN [frames[self] EXCEPT !.partitions = r.res, !.op = FrameNode(self)]
                     ELSE frames[self],
           parts |-> r.parts, registered |-> r.registered]
             : r \in run_exec_plan(self)}

\* An _execute that hands the result partitions to the input frames of the
\* plan node as well.
_execute_fills_inputs(self) ==
    /\ \E o \in ExecOutcomes(self) :
        /\ frames' = [g \in 1..Len(frames) |->
                         IF g = self THEN o.frame
                         ELSE IF /\ o.ran /\ o.status = "ok"
                                 /\ g \in Range(frames[self].op.input)
                              THEN [frames[g] EXCEPT !.partitions = o.frame.partitions]
                              ELSE frames[g]]
        /\ parts' = o.parts
        /\ registered' = o.registered
        /\ last' = o.status
    /\ UNCHANGED <<next_id, index_reads, threads, made, handles, config, __engine, io_cls>>

_execute(self) ==
    /\ \E o \in ExecOutcomes(self) :
        /\ frames' = [frames EXCEPT ![self] = o.frame]
        /\ parts' = o.parts
        /\ registered' = o.registered
        /\ last' = o.status
    /\ UNCHANGED <<next_id, index_reads, threads, made, handles, config, __engine, io_cls>>

\* how _build_index_cache ends on the frame fr as _execute left it
BuildIndexStatus(fr) ==
    IF fr.op.kind # "FrameNode" THEN "AssertionError"
    ELSE IF IsNone(fr.partitions) THEN "AttributeError"
    ELSE IF Len(fr.partitions.v) # 1 THEN "AssertionError"
    ELSE "ok"

\* A _get_index that rebuilds the index cache on every call.
_get_index_rebuilds(self) ==
    /\ \E o \in ExecOutcomes(self) :
        LET status == IF o.status # "ok" THEN o.status ELSE BuildIndexStatus(o.frame)
            read == status = "ok"
        IN  /\ frames' = [frames EXCEPT ![self] =
                            IF read
                            THEN [o.frame EXCEPT !.index_cache = Some([index_of |-> o.frame.partitions.v[1]])]
                            ELSE o.frame]
            /\ index_reads' = [index_reads EXCEPT ![self] = @ + (IF read THEN 1 ELSE 0)]
            /\ parts' = o.parts
            /\ registered' = o.registered
            /\ last' = status
    /\ UNCHANGED <<next_id, threads, made, handles, config, __engine, io_cls>>

_get_index(self) ==
    /\ \E o \in ExecOutcomes(self) :
        LET build == o.status = "ok" /\ IsNone(o.frame.index_cache)
            status == IF o.status # "ok" THEN o.status
                      ELSE IF build THEN BuildIndexStatus(o.frame) ELSE "ok"
            read == build /\ status = "ok"
        IN  /\ frames' = [frames EXCEPT ![self] =
                            IF read
                            THEN [o.frame EXCEPT !.index_cache = Some([index_of |-> o.frame.partitions.v[1]])]
                            ELSE o.frame]
            /\ index_reads' = [index_reads EXCEPT ![self] = @ + (IF read THEN 1 ELSE 0)]
            /\ parts' = o.parts
            /\ registered' = o.registered
            /\ last' = status
    /\ UNCHANGED <<next_id, threads, made, handles, config, __engine, io_cls>>

\* to_pandas: _execute, then the base class converts the partition grid
to_pandas(self) ==
    /\ \E o \in ExecOutcomes(self) :
        /\ frames' = [frames EXCEPT ![self] = o.frame]
        /\ parts' = o.parts
        /\ registered' = o.registered
        /\ last' = IF o.status # "ok" THEN o.status
                   ELSE IF IsNone(o.frame.partitions) THEN "TypeError" ELSE "ok"
    /\ UNCHANGED <<next_id, index_reads, threads, made, handles, config, __engine, io_cls>>

(***************************************************************************)
(* Spec: two source frames, then any calls of the frame operations.        *)
(***************************************************************************)
SourceIndex(p) == Some([index_of |-> p])
SourcePartition(k) == Partition([table |-> "source", of |-> k], <<>>, None, None, None)

\* Frames 1 and 2 are materialized, each over one partition.  Frame 1 is a
\* loaded table with columns a, b and its index at hand.  Frame 2 is an
\* executed result that carries an index column: b is its index, c its only
\* data column, and its index was not read yet.  Frame 3 is what
\* frame 1's mask(col_indices=["b"]) returned: a projection not yet executed.
Init ==
    /\ DispatcherStart
    /\ frames = << __init__(1, 1, Some(<<1>>), SourceIndex(1), <<"a", "b">>,
                            ListArg(<<"int64", "float64">>), None, None),
                   __init__(2, 2, Some(<<2>>), None, <<"c">>,
                            ListArg(<<"float64", "int64">>), None, Some(<<"b">>)),
                   __init__(3, 3, None, None, <<"b">>, ListArg(<<"float64">>),
                            Some(MaskNode(1, None, None, <<"b">>)), None) >>
    /\ parts = [p \in 1..2 |-> SourcePartition(p)]
    /\ registered = [p \in 1..2 |-> 0]
    /\ next_id = 4
    /\ index_reads = <<0, 0, 0>>
    /\ last = "ok"
    /\ threads = <<>>
    /\ made = <<>>
    /\ handles = {1, 2, 3}

\* Frame-building calls are offered while fewer than MaxFrames frames exist
\* (the aligned frames of a union are built within the one call), and while
\* fewer than MaxDropped ids were spent on frames whose construction failed.
Room ==
    /\ Len(frames) < MaxFrames
    /\ next_id - 1 - Len(frames) < MaxDropped

\* the arguments the calls are offered
RowArgs == {[row_indices |-> None, row_numeric_idx |-> None],
            [row_indices |-> None, row_numeric_idx |-> Some(<<0>>)]}
ColArgs(f) ==
    {[col_indices |-> None, col_numeric_idx |-> None],
     [col_indices |-> None, col_numeric_idx |-> Some(<<1>>)]}
    \cup {[col_indices |-> Some(<<frames[f].columns[i]>>), col_numeric_idx |-> None]
             : i \in 1..Len(frames[f].columns)}
\* (tuples, where the values offered are of different kinds)
FillnaArgs ==
    LET call(value, method, axis, limit, downcast) ==
            [value |-> value, method |-> method, axis |-> axis, limit |-> limit,
             downcast |-> downcast]
    IN  <<call(PyInt(0), None, PyInt(0), None, None),
          call(PyDict(<<[key |-> "b", val |-> PyInt(0)]>>), None, PyInt(0), None, None),
          call(PyInt(0), None, None, None, None),
          call(PyList(<<PyInt(0)>>), None, PyInt(0), None, None),
          call(None, None, PyInt(0), None, None),
          call(PyInt(0), Some("ffill"), PyInt(0), None, None),
          call(PyInt(0), None, PyInt(0), Some(1), None),
          call(PyInt(0), None, PyInt(0), None, Some("infer"))>>
OnArgs == <<None, Some(<<"b">>), Some(<<"a">>)>>
ByArgs == {[qc |-> FALSE, frame |-> 0]} \cup {[qc |-> TRUE, frame |-> g] : g \in handles}
GroupbyArgs ==
    LET call(axis, agg, level, as_index) ==
            [axis |-> axis, agg |-> agg,
             groupby_args |-> [level |-> level, as_index |-> as_index]]
    IN  <<call(0, PyStr("sum"), None, TRUE),
          call(0, PyStr("sum"), None, FALSE),
          call(0, PyDict(<<[key |-> "b", val |-> PyList(<<"min", "max">>)]>>), None, TRUE),
          call(0, PyList(<<"sum">>), None, TRUE),
          call(1, PyStr("sum"), None, TRUE),
          call(0, PyStr("sum"), Some(0), TRUE)>>
ConcatArgs ==
    LET call(axis, join_kind, sort, ignore_index) ==
            [axis |-> axis, join_kind |-> join_kind, sort |-> sort,
             ignore_index |-> ignore_index]
    IN  {call(0, "outer", FALSE, FALSE), call(0, "inner", FALSE, FALSE),
         call(0, "outer", TRUE, FALSE), call(0, "outer", FALSE, TRUE),
         call(1, "outer", FALSE, FALSE)}
OtherFrames == {<<>>} \cup {<<g>> : g \in handles}
BinOpOthers == <<PyInt(1), PyList(<<PyInt(1), PyInt(2)>>), PyStr("s")>>
NewColumnArgs == {<<"x", "y">>, <<"x">>}

Mask == \E f \in handles, r \in RowArgs : \E c \in ColArgs(f) :
    /\ Room
    /\ mask(f, r.row_indices, r.row_numeric_idx, c.col_indices, c.col_numeric_idx)
Fillna == \E f \in handles, i \in 1..Len(FillnaArgs) :
    LET a == FillnaArgs[i] IN
    /\ Room
    /\ fillna(f, a.value, a.method, a.axis, a.limit, a.downcast)
DtYear == \E f \in handles : Room /\ dt_year(f)
Join == \E f \in handles, g \in handles, i \in 1..Len(OnArgs) :
    /\ Room
    /\ join(f, g, "inner", OnArgs[i], FALSE, <<"_x", "_y">>)
GroupbyAgg == \E f \in handles, by \in ByArgs, i \in 1..Len(GroupbyArgs) :
    LET a == GroupbyArgs[i] IN
    /\ Room
    /\ groupby_agg(f, by, a.axis, a.agg, a.groupby_args)
Concat == \E f \in handles, others \in OtherFrames, a \in ConcatArgs :
    /\ Room
    /\ a.sort => \A g \in {f} \cup Range(others) : Sortable(frames[g].columns)
    /\ _concat(f, a.axis, others, a.join_kind, a.sort, a.ignore_index)
BinOp == \E f \in handles, fill_value \in {None, PyInt(0)} :
    /\ Room
    /\ \/ \E i \in 1..Len(BinOpOthers) : bin_op(f, BinOpOthers[i], "add", fill_value)
       \/ \E g \in handles :
             /\ Sortable(frames[f].columns) /\ Sortable(frames[g].columns)
             /\ bin_op(f, PyFrame(g), "add", fill_value)
ResetIndex == \E f \in handles, drop \in BOOLEAN : Room /\ reset_index(f, drop)
SetColumns == \E f \in handles, new_columns \in NewColumnArgs :
    /\ Room
    /\ _set_columns(f, new_columns)
Execute == \E f \in handles : _execute(f)
GetIndex == \E f \in handles : _get_index(f)
ToPandas == \E f \in handles : to_pandas(f)

Next ==
    \/ Mask
    \/ Fillna
    \/ DtYear
    \/ Join
    \/ GroupbyAgg
    \/ Concat
    \/ BinOp
    \/ ResetIndex
    \/ SetColumns
    \/ Execute
    \/ GetIndex
    \/ ToPandas

Spec == Init /\ [][Next]_vars

(***************************************************************************)
(* Laziness and materialization.                                           *)
(***************************************************************************)
PlanCall ==
    \/ Mask
    \/ Fillna
    \/ DtYear
    \/ Join
    \/ GroupbyAgg
    \/ Concat
    \/ BinOp
    \/ ResetIndex
    \/ SetColumns

Trigger(f) == _execute(f) \/ _get_index(f) \/ to_pandas(f)

\* C1: a plan-building call (mask, fillna, dt_year, join, groupby_agg,
\* _union_all/_concat, bin_op, reset_index, _set_columns) changes no partition
\* object (queue, cached length and width, engine handle), registers nothing
\* with the engine, creates no partition, and changes no frame that existed
\* before the call: no plan is executed by it.
C1_PlanCallLeavesPartitions ==
    [][(\/ parts' # parts
        \/ registered' # registered
        \/ \E f \in FrameIds : frames'[f] # frames[f]) => ~PlanCall]_vars

\* a union was built (its aligned frames too) and the partitions are the
\* loaded ones, untouched
C1_Witness ==
    /\ Len(frames) > 3
    /\ frames[Len(frames)].op.kind = "UnionNode"
    /\ Len(parts) = 2
    /\ \A p \in 1..2 : parts[p] = SourcePartition(p) /\ registered[p] = 0

\* C2: every frame whose plan node is a Source node has a partition grid.
C2_SourceHasPartitions ==
    \A f \in FrameIds :
        frames[f].op.kind = "FrameNode" => ~IsNone(frames[f].partitions)

\* C3: _execute, an index read or to_pandas on a frame whose plan node is not
\* a Source node, when it returns without an exception, has registered the
\* partitions the plan reads and leaves the frame with a Source node of
\* itself over the one partition the run created.
C3_TriggerMaterializes ==
    [][\A f \in FrameIds :
          (frames[f].op.kind # "FrameNode" /\ Trigger(f) /\ last' = "ok")
          => /\ frames'[f].op = FrameNode(f)
             /\ frames'[f].partitions = Some(<<Len(parts) + 1>>)
             /\ Len(parts') = Len(parts) + 1
             /\ parts'[Len(parts) + 1].data = [table |-> f]
             /\ \A p \in PartitionsOf(CollectFrames(frames[f].op)) :
                    ~IsNone(parts'[p].frame_id)]_vars

\* the projection of frame 1 was materialized by an index read
C3_Witness ==
    /\ frames[3].op = FrameNode(3)
    /\ index_reads[3] = 1
    /\ ~IsNone(parts[1].frame_id)
    /\ last = "ok"

\* C4: a frame's plan node changes only from a non-Source node to the Source
\* node of the frame itself; a trigger on a frame with a Source node runs no
\* plan (no registration, no new partition) and leaves its partitions alone;
\* the row index of a frame is read from its partition at most once.
C4_MaterializedOnce ==
    [][\A f \in FrameIds :
          /\ frames'[f].op # frames[f].op
             => frames[f].op.kind # "FrameNode" /\ frames'[f].op = FrameNode(f)
          /\ frames[f].op.kind = "FrameNode"
             => /\ frames'[f].partitions = frames[f].partitions
                /\ Trigger(f) => parts' = parts /\ registered' = registered
          /\ index_reads'[f] <= 1
          /\ (~IsNone(frames[f].index_cache) /\ Trigger(f))
             => index_reads'[f] = index_reads[f]]_vars

\* the index of the materialized frame 2 was read: nothing was registered,
\* no partition was created
C4_Witness ==
    /\ index_reads[2] = 1
    /\ ~IsNone(frames[2].index_cache)
    /\ frames[2].partitions = Some(<<2>>)
    /\ Len(parts) = 2
    /\ \A p \in 1..2 : IsNone(parts[p].frame_id)

(***************************************************************************)
(* PandasFramePartition: selectors, the wrapped object, queued functions.  *)
(***************************************************************************)
\* slice(start, stop, step), each None or Some(int); a list of positions
slice(start, stop, step) == [slice |-> TRUE, start |-> start, stop |-> stop, step |-> step]
PositionList(v) == [slice |-> FALSE, v |-> v]
Max(a, b) == IF a >= b THEN a ELSE b

\* slice.indices(n): start, stop and step adjusted to a sequence of length n
SliceIndices(slc, n) ==
    LET step == IF IsNone(slc.step) THEN 1 ELSE slc.step.v
        lower == IF step < 0 THEN -1 ELSE 0
        upper == IF step < 0 THEN n - 1 ELSE n
        adjust(x, dflt) ==
            IF IsNone(x) THEN dflt
            ELSE IF x.v < 0 THEN Max(x.v + n, lower) ELSE Min(x.v, upper)
    IN  [start |-> adjust(slc.start, IF step < 0 THEN upper ELSE lower),
         stop  |-> adjust(slc.stop, IF step < 0 THEN lower ELSE upper),
         step  |-> step]

\* len(range(start, stop, step))
RangeLen(start, stop, step) ==
    IF step > 0
    THEN IF start < stop THEN (stop - start - 1) \div step + 1 ELSE 0
    ELSE IF stop < start THEN (start - stop - 1) \div (0 - step) + 1 ELSE 0

\* modin.pandas.indexing.compute_sliced_len
compute_sliced_len(slc, sequence_len) ==
    LET ix == SliceIndices(slc, sequence_len) IN RangeLen(ix.start, ix.stop, ix.step)

RECURSIVE TakeRange(_, _, _, _)
\* the elements of s at positions i, i + step, ... short of stop
TakeRange(s, i, stop, step) ==
    IF (step > 0 /\ i >= stop) \/ (step < 0 /\ i <= stop) THEN <<>>
    ELSE <<s[i + 1]>> \o TakeRange(s, i + step, stop, step)

\* df.iloc[...] along one axis: a position outside the axis raises IndexError
ILocOk(s, sel) ==
    sel.slice \/ \A k \in 1..Len(sel.v) : sel.v[k] \in (0 - Len(s))..(Len(s) - 1)
ILoc(s, sel) ==
    IF sel.slice
    THEN LET ix == SliceIndices(sel, Len(s)) IN TakeRange(s, ix.start, ix.stop, ix.step)
    ELSE [k \in 1..Len(sel.v) |->
             s[(IF sel.v[k] < 0 THEN sel.v[k] + Len(s) ELSE sel.v[k]) + 1]]

\* The object a partition wraps: a DataFrame with its row and column labels
\* in order, or the int an extraction function returned; log lists the
\* functions that were applied to produce it, in order.
DataFrame(rows, cols, log) == [rows |-> rows, cols |-> cols, value |-> None, log |-> log]

\* queued functions
Fn(fn, row_indices, col_indices) ==
    [fn |-> fn, row_indices |-> row_indices, col_indices |-> col_indices]
\* lambda df: pandas.DataFrame(df.iloc[row_indices, col_indices])
MaskFn(row_indices, col_indices) == Fn("iloc", Some(row_indices), Some(col_indices))
UserFn(tag) == Fn(tag, None, None)
_length_extraction_fn == Fn("length", None, None)
_width_extraction_fn == Fn("width", None, None)

\* func(df): whether it returns, and what
CallFn(func, df) ==
    IF func.fn = "iloc"
    THEN IF ILocOk(df.rows, func.row_indices.v) /\ ILocOk(df.cols, func.col_indices.v)
         THEN [ok |-> TRUE,
               df |-> [rows  |-> ILoc(df.rows, func.row_indices.v),
                       cols  |-> ILoc(df.cols, func.col_indices.v),
                       value |-> None,
                       log   |-> Append(df.log, "iloc")]]
         ELSE [ok |-> FALSE, df |-> df]
    ELSE IF func.fn = "length"
    THEN [ok |-> TRUE, df |-> [df EXCEPT !.value = Some(Len(df.rows)), !.log = Append(@, "length")]]
    ELSE IF func.fn = "width"
    THEN [ok |-> TRUE, df |-> [df EXCEPT !.value = Some(Len(df.cols)), !.log = Append(@, "width")]]
    ELSE [ok |-> TRUE, df |-> [df EXCEPT !.log = Append(@, func.fn)]]

RECURSIVE RunQueue(_, _)
\* the functions of queue applied to df one after the other, first in first
RunQueue(queue, df) ==
    IF Len(queue) = 0 THEN [ok |-> TRUE, df |-> df]
    ELSE LET r == CallFn(Head(queue), df)
         IN  IF r.ok THEN RunQueue(Tail(queue), r.df) ELSE [ok |-> FALSE, df |-> df]

\* how the last call on a partition ended: the method, the receiver, the
\* selectors given to mask, the partition object returned (0: none), "ok" or
\* the exception raised
Call(op, self, args, ret, status) ==
    [op |-> op, self |-> self, args |-> args, ret |-> ret, status |-> status]

PartitionIds == 1..Len(parts)
PartitionHandle(p) == [some |-> TRUE, t |-> "partition", v |-> p]
PartitionVars == <<frames, next_id, index_reads, registered, threads, made, handles, config, __engine, io_cls>>

(***************************************************************************)
(* PandasFramePartition.apply, add_to_apply_calls, drain_call_queue        *)
(***************************************************************************)
\* An apply that runs its own function before the queued ones.
ApplyResultFuncFirst(self, func) ==
    LET ran == <<func>> \o parts[self].call_queue
        r == RunQueue(ran, parts[self].data)
    IN  [ok |-> r.ok, df |-> r.df, ran |-> ran]

\* apply(func): the queued functions run in the order they were added, then
\* func; the result is wrapped by a new partition
ApplyResult(self, func) ==
    LET ran == Append(parts[self].call_queue, func)
        r == RunQueue(ran, parts[self].data)
    IN  [ok |-> r.ok, df |-> r.df, ran |-> ran]

apply(self, func) ==
    LET r == ApplyResult(self, func) IN
    /\ IF r.ok
       THEN /\ parts' = Append(parts, Partition(r.df, <<>>, None, None, None))
            /\ last' = Call("apply", self, <<>>, Len(parts) + 1, "ok")
       ELSE /\ parts' = parts
            /\ last' = Call("apply", self, <<>>, 0, "IndexError")
    /\ UNCHANGED PartitionVars

\* the new partition add_to_apply_calls(func) returns: the same wrapped
\* object, the queue with func at its end, no cached extents
AddedCall(self, func) ==
    Partition(parts[self].data, Append(parts[self].call_queue, func), None, None, None)

add_to_apply_calls(self, func) ==
    /\ parts' = Append(parts, AddedCall(self, func))
    /\ last' = Call("add_to_apply_calls", self, <<>>, Len(parts) + 1, "ok")
    /\ UNCHANGED PartitionVars

\* drain_call_queue(): the queue is run on the wrapped object of this very
\* partition and emptied
drain_call_queue(self) ==
    LET r == RunQueue(parts[self].call_queue, parts[self].data) IN
    /\ IF r.ok
       THEN /\ parts' = [parts EXCEPT ![self].data = r.df, ![self].call_queue = <<>>]
            /\ last' = Call("drain_call_queue", self, <<>>, 0, "ok")
       ELSE /\ parts' = parts
            /\ last' = Call("drain_call_queue", self, <<>>, 0, "IndexError")
    /\ UNCHANGED PartitionVars

\* __copy__(): a new partition with the wrapped object, the queue and the
\* cached extents of this one
__copy__(self) == parts[self]

(***************************************************************************)
(* PandasFramePartition.mask                                               *)
(***************************************************************************)
\* A mask without the test for selectors that select everything.
mask_always_queues(self, row_indices, col_indices) ==
    LET me == parts[self]
        new_obj == AddedCall(self, MaskFn(row_indices, col_indices))
        new_length ==
            IF row_indices.slice
            THEN IF IsA(me.length_cache, "int")
                 THEN PyInt(compute_sliced_len(row_indices, me.length_cache.v))
                 ELSE None
            ELSE PyInt(Len(row_indices.v))
        new_width ==
            IF col_indices.slice
            THEN IF IsA(me.width_cache, "int")
                 THEN PyInt(compute_sliced_len(col_indices, me.width_cache.v))
                 ELSE None
            ELSE PyInt(Len(col_indices.v))
    IN  /\ parts' = Append(parts, [new_obj EXCEPT !.length_cache = new_length,
                                                  !.width_cache = new_width])
        /\ last' = Call("mask", self, <<row_indices, col_indices>>, Len(parts) + 1, "ok")
        /\ UNCHANGED PartitionVars

\* A mask whose new partition inherits the cached extents of the receiver.
mask_keeps_caches(self, row_indices, col_indices) ==
    LET me == parts[self]
        full(sel, cache) ==
            \/ sel.slice /\ sel = slice(None, None, None)
            \/ ~sel.slice /\ IsA(cache, "int") /\ Len(sel.v) = cache.v
        new_obj == AddedCall(self, MaskFn(row_indices, col_indices))
    IN  /\ IF full(row_indices, me.length_cache) /\ full(col_indices, me.width_cache)
           THEN parts' = Append(parts, __copy__(self))
           ELSE parts' = Append(parts, [new_obj EXCEPT !.length_cache = me.length_cache,
                                                       !.width_cache = me.width_cache])
        /\ last' = Call("mask", self, <<row_indices, col_indices>>, Len(parts) + 1, "ok")
        /\ UNCHANGED PartitionVars

PandasFramePartition_mask(self, row_indices, col_indices) ==
    LET me == parts[self]
        \* one half of the condition: the selector is slice(None), or it is
        \* no slice, the cached extent is an int and len(selector) equals it
        full(sel, cache) ==
            \/ sel.slice /\ sel = slice(None, None, None)
            \/ ~sel.slice /\ IsA(cache, "int") /\ Len(sel.v) = cache.v
        new_obj == AddedCall(self, MaskFn(row_indices, col_indices))
        new_length ==
            IF row_indices.slice
            THEN IF IsA(me.length_cache, "int")
                 THEN PyInt(compute_sliced_len(row_indices, me.length_cache.v))
                 ELSE None
            ELSE PyInt(Len(row_indices.v))
        new_width ==
            IF col_indices.slice
            THEN IF IsA(me.width_cache, "int")
                 THEN PyInt(compute_sliced_len(col_indices, me.width_cache.v))
                 ELSE None
            ELSE PyInt(Len(col_indices.v))
    IN  /\ IF full(row_indices, me.length_cache) /\ full(col_indices, me.width_cache)
           THEN parts' = Append(parts, __copy__(self))
           ELSE parts' = Append(parts, [new_obj EXCEPT !.length_cache = new_length,
                                                       !.width_cache = new_width])
        /\ last' = Call("mask", self, <<row_indices, col_indices>>, Len(parts) + 1, "ok")
        /\ UNCHANGED PartitionVars

(***************************************************************************)
(* PandasFramePartition.length, width                                      *)
(***************************************************************************)
\* A length that applies the extraction function on every call.
length_recomputes(self) ==
    LET r == ApplyResult(self, _length_extraction_fn) IN
    /\ IF r.ok
       THEN /\ parts' = [Append(parts, Partition(r.df, <<>>, None, None, None))
                            EXCEPT ![self].length_cache = PartitionHandle(Len(parts) + 1)]
            /\ last' = Call("length", self, <<>>, 0, "ok")
       ELSE /\ parts' = parts
            /\ last' = Call("length", self, <<>>, 0, "IndexError")
    /\ UNCHANGED PartitionVars

\* length(): with no cached length, what apply(extraction function) returns
\* is stored as the cache; the cache is returned
length(self) ==
    /\ IF IsNone(parts[self].length_cache)
       THEN LET r == ApplyResult(self, _length_extraction_fn) IN
            IF r.ok
            THEN /\ parts' = [Append(parts, Partition(r.df, <<>>, None, None, None))
                                 EXCEPT ![self].length_cache = PartitionHandle(Len(parts) + 1)]
                 /\ last' = Call("length", self, <<>>, 0, "ok")
            ELSE /\ parts' = parts
                 /\ last' = Call("length", self, <<>>, 0, "IndexError")
       ELSE /\ parts' = parts
            /\ last' = Call("length", self, <<>>, 0, "ok")
    /\ UNCHANGED PartitionVars

width(self) ==
    /\ IF IsNone(parts[self].width_cache)
       THEN LET r == ApplyResult(self, _width_extraction_fn) IN
            IF r.ok
            THEN /\ parts' = [Append(parts, Partition(r.df, <<>>, None, None, None))
                                 EXCEPT ![self].width_cache = PartitionHandle(Len(parts) + 1)]
                 /\ last' = Call("width", self, <<>>, 0, "ok")
            ELSE /\ parts' = parts
                 /\ last' = Call("width", self, <<>>, 0, "IndexError")
       ELSE /\ parts' = parts
            /\ last' = Call("width", self, <<>>, 0, "ok")
    /\ UNCHANGED PartitionVars

(***************************************************************************)
(* SpecPartition: calls on the partitions of a heap.  Partition 1 wraps a  *)
(* 2 x 2 DataFrame whose extents are cached; partition 2 wraps a 3 x 2     *)
(* DataFrame with one function queued and no cached extents.               *)
(***************************************************************************)
InitPartition ==
    /\ DispatcherStart
    /\ parts = << Partition(DataFrame(<<10, 11>>, <<20, 21>>, <<>>), <<>>,
                            PyInt(2), PyInt(2), None),
                  Partition(DataFrame(<<10, 11, 12>>, <<20, 21>>, <<>>), <<UserFn("f")>>,
                            None, None, None) >>
    /\ last = Call("put", 0, <<>>, 0, "ok")
    /\ frames = <<>>
    /\ next_id = 1
    /\ index_reads = <<>>
    /\ registered = <<>>
    /\ threads = <<>>
    /\ made = <<>>
    /\ handles = {}

\* the (row_indices, col_indices) pairs mask is called with
Selections ==
    LET all == slice(None, None, None) IN
    <<<<all, all>>,
      <<PositionList(<<0, 1>>), PositionList(<<0, 1>>)>>,
      <<PositionList(<<1, 0>>), all>>,
      <<PositionList(<<0, 0>>), PositionList(<<1, 0>>)>>,
      <<all, PositionList(<<0>>)>>,
      <<PositionList(<<2>>), all>>,
      <<PositionList(<<0, 1, 2>>), slice(Some(0), Some(1), None)>>,
      <<slice(Some(0), Some(1), None), all>>,
      <<slice(Some(0), Some(2), None), all>>,
      <<slice(Some(1), Some(5), None), slice(Some(0), Some(1), None)>>,
      <<slice(None, None, Some(-1)), PositionList(<<0>>)>>,
      <<slice(Some(-1), None, None), PositionList(<<1, 0>>)>>>>
UserTags == {"g", "h"}
\* the partitions that wrap a DataFrame (not the int of an extraction)
FramePartitions == {p \in PartitionIds : IsNone(parts[p].data.value)}

MaskPartition ==
    \E p \in FramePartitions, i \in 1..Len(Selections) :
        /\ Len(parts) < MaxParts
        /\ PandasFramePartition_mask(p, Selections[i][1], Selections[i][2])
AddToApplyCalls == \E p \in FramePartitions, tag \in UserTags :
    /\ Len(parts) < MaxParts
    /\ add_to_apply_calls(p, UserFn(tag))
Apply == \E p \in FramePartitions, tag \in UserTags :
    /\ Len(parts) < MaxParts
    /\ apply(p, UserFn(tag))
DrainCallQueue == \E p \in FramePartitions : drain_call_queue(p)
Length == \E p \in FramePartitions :
    /\ IsNone(parts[p].length_cache) => Len(parts) < MaxParts
    /\ length(p)
Width == \E p \in FramePartitions :
    /\ IsNone(parts[p].width_cache) => Len(parts) < MaxParts
    /\ width(p)

NextPartition ==
    \/ MaskPartition
    \/ AddToApplyCalls
    \/ Apply
    \/ DrainCallQueue
    \/ Length
    \/ Width

SpecPartition == InitPartition /\ [][NextPartition]_vars

(***************************************************************************)
(* Partition mask, caches and queue.                                       *)
(***************************************************************************)
\* the selector picks every position of the cached extent, each once and in
\* order: slice(None), or the list 0, 1, ..., cache - 1 of a cached int
SelectsEverything(sel, cache) ==
    IF sel.slice THEN sel = slice(None, None, None)
    ELSE IsA(cache, "int") /\ sel.v = [k \in 1..cache.v |-> k - 1]
FullExtent(p, row_indices, col_indices) ==
    /\ SelectsEverything(row_indices, parts[p].length_cache)
    /\ SelectsEverything(col_indices, parts[p].width_cache)
MaskCall(p, i) == PandasFramePartition_mask(p, Selections[i][1], Selections[i][2])

C6_NoOpIffSelectsEverything ==
    [][\A p \in PartitionIds, i \in 1..Len(Selections) :
          MaskCall(p, i)
          => IF FullExtent(p, Selections[i][1], Selections[i][2])
             THEN parts'[Len(parts) + 1].call_queue = parts[p].call_queue
             ELSE parts'[Len(parts) + 1].call_queue
                     = Append(parts[p].call_queue, MaskFn(Selections[i][1], Selections[i][2]))]_vars

\* C7: after a mask that queued a sub-selection, the new partition's cached
\* length is: for a slice and a cached int length of the receiver, the number
\* of positions of that length the slice selects; for a list, its number of
\* entries; for a slice and no cached int, None.  The width likewise.  A
\* cached int equals the extent of the DataFrame the queue yields.
C7_MaskCaches ==
    (last.op = "mask" /\ parts[last.ret].call_queue # parts[last.self].call_queue)
    => LET me == parts[last.self]
           new == parts[last.ret]
           rule(sel, before, after) ==
               IF sel.slice
               THEN IF IsA(before, "int")
                    THEN after = PyInt(Len(ILoc([k \in 1..before.v |-> k], sel)))
                    ELSE after = None
               ELSE after = PyInt(Len(sel.v))
           r == RunQueue(new.call_queue, new.data)
       IN  /\ rule(last.args[1], me.length_cache, new.length_cache)
           /\ rule(last.args[2], me.width_cache, new.width_cache)
           /\ (r.ok /\ IsA(new.length_cache, "int")) => new.length_cache.v = Len(r.df.rows)
           /\ (r.ok /\ IsA(new.width_cache, "int")) => new.width_cache.v = Len(r.df.cols)

\* a slice that reaches past a cached length of 2 was clipped to it, on a
\* partition that was itself made by mask
C7_Witness ==
    /\ last.op = "mask"
    /\ last.self > 2
    /\ last.args[1] = slice(Some(1), Some(5), None)
    /\ parts[last.self].length_cache = PyInt(2)
    /\ parts[last.ret].length_cache = PyInt(1)
    /\ RunQueue(parts[last.ret].call_queue, parts[last.ret].data).ok

\* what length() and width() have to find: the extents of the DataFrame
\* the queue of partition p yields, and the functions applied to get there
Drained(p) == RunQueue(parts[p].call_queue, parts[p].data).df

\* C8: no call changes a cached length or width that is populated.  length()
\* on a partition without a cached length makes one apply call, which runs
\* the queue and then one extraction function, and stores what apply
\* returned (a partition wrapping the length) as the cache; with a cached
\* length it applies nothing and changes nothing.  width() likewise.
C8_ExtentsMemoized ==
    [][\A p \in PartitionIds :
          /\ ~IsNone(parts[p].length_cache) => parts'[p].length_cache = parts[p].length_cache
          /\ ~IsNone(parts[p].width_cache) => parts'[p].width_cache = parts[p].width_cache
          /\ (length(p) /\ last'.status = "ok")
             => IF IsNone(parts[p].length_cache)
                THEN /\ Len(parts') = Len(parts) + 1
                     /\ parts'[p].length_cache = PartitionHandle(Len(parts) + 1)
                     /\ parts'[Len(parts) + 1].data.value = Some(Len(Drained(p).rows))
                     /\ parts'[Len(parts) + 1].data.log = Append(Drained(p).log, "length")
                ELSE parts' = parts
          /\ (width(p) /\ last'.status = "ok")
             => IF IsNone(parts[p].width_cache)
                THEN /\ Len(parts') = Len(parts) + 1
                     /\ parts'[p].width_cache = PartitionHandle(Len(parts) + 1)
                     /\ parts'[Len(parts) + 1].data.value = Some(Len(Drained(p).cols))
                     /\ parts'[Len(parts) + 1].data.log = Append(Drained(p).log, "width")
                ELSE parts' = parts]_vars

\* length(), width(), length() on partition 2: the second length() found the
\* cache of the first one
C8_Witness ==
    /\ last.op = "length"
    /\ last.self = 2
    /\ parts[2].length_cache = PartitionHandle(3)
    /\ parts[2].width_cache = PartitionHandle(4)
    /\ parts[3].data.value = Some(3)

Tags(queue) == [i \in 1..Len(queue) |-> queue[i].fn]

\* C9: add_to_apply_calls returns a new partition whose queue is the
\* receiver's with the function at its end and changes no existing partition;
\* apply runs the queued functions in the order they were added and then its
\* own function; drain_call_queue runs the queued functions in that order.
C9_QueueOrder ==
    [][\A p \in PartitionIds, tag \in UserTags :
          /\ add_to_apply_calls(p, UserFn(tag))
             => /\ last'.ret = Len(parts) + 1
                /\ Len(parts') = Len(parts) + 1
                /\ parts'[Len(parts) + 1].call_queue = Append(parts[p].call_queue, UserFn(tag))
                /\ \A q \in PartitionIds : parts'[q] = parts[q]
          /\ (apply(p, UserFn(tag)) /\ last'.status = "ok")
             => parts'[last'.ret].data.log
                   = parts[p].data.log \o Tags(parts[p].call_queue) \o <<tag>>
          /\ (drain_call_queue(p) /\ last'.status = "ok")
             => parts'[p].data.log = parts[p].data.log \o Tags(parts[p].call_queue)]_vars

\* g was queued behind f, then apply(h) ran f, g, h in this order
C9_Witness ==
    /\ last.op = "apply"
    /\ parts[last.self].call_queue = <<UserFn("f"), UserFn("g")>>
    /\ parts[last.ret].data.log = <<"f", "g", "h">>

(***************************************************************************)
(* SpecThreads: threads of one process run OmnisciOnRayFrame.__init__ at   *)
(* the same time.  The interpreter may switch threads between the          *)
(* statement that reads the counter for the id and the statement that      *)
(* increments it, and inside the increment between its read and its write. *)
(***************************************************************************)
InitThreads ==
    /\ DispatcherStart
    /\ threads = [t \in 1..NumThreads |-> [pc |-> "id", tmp |-> 0, built |-> 0]]
    /\ made = <<>>
    /\ next_id = 1
    /\ frames = <<>>
    /\ parts = <<>>
    /\ index_reads = <<>>
    /\ registered = <<>>
    /\ last = "ok"
    /\ handles = {}

ThreadVars == <<frames, parts, index_reads, registered, last, handles, config, __engine, io_cls>>

\* self.id = str(type(self)._next_id[0])
AssignId(t) ==
    /\ threads[t].pc = "id"
    /\ threads[t].built < FramesPerThread
    /\ made' = Append(made, str(next_id))
    /\ threads' = [threads EXCEPT ![t].pc = "load"]
    /\ UNCHANGED next_id
    /\ UNCHANGED ThreadVars

\* type(self)._next_id[0] += 1: the read of the counter
LoadCounter(t) ==
    /\ threads[t].pc = "load"
    /\ threads' = [threads EXCEPT ![t].pc = "store", ![t].tmp = next_id]
    /\ UNCHANGED <<next_id, made>>
    /\ UNCHANGED ThreadVars

\* type(self)._next_id[0] += 1: the write of the sum; the rest of __init__
\* touches only the new object
StoreCounter(t) ==
    /\ threads[t].pc = "store"
    /\ next_id' = threads[t].tmp + 1
    /\ threads' = [threads EXCEPT ![t].pc = "id", ![t].tmp = 0, ![t].built = @ + 1]
    /\ UNCHANGED made
    /\ UNCHANGED ThreadVars

NextThreads ==
    \/ \E t \in 1..NumThreads : AssignId(t)
    \/ \E t \in 1..NumThreads : LoadCounter(t)
    \/ \E t \in 1..NumThreads : StoreCounter(t)

SpecThreads == InitThreads /\ [][NextThreads]_vars

\* C10: no two frames are given the same id, also when threads construct
\* frames at the same time.
C10_IdsUnique ==
    \A i \in 1..Len(made), j \in 1..Len(made) : i # j => made[i] # made[j]

(***************************************************************************)
(* The plan graph.                                                         *)
(***************************************************************************)
\* the counter value a frame's id was made from
IdValue(f) == CHOOSE n \in 1..next_id : str(n) = frames[f].id
PlanInputs(f) == Range(frames[f].op.input)
RECURSIVE Ancestors(_, _)
\* the frames reached from the frames S through at most n plan-node inputs
Ancestors(S, n) ==
    IF n = 0 THEN S
    ELSE Ancestors(S \cup UNION {PlanInputs(g) : g \in S}, n - 1)

\* C11: the plan graph is acyclic: every input of a frame whose plan node is
\* not a Source node is a frame created earlier, with a strictly smaller id,
\* and no frame is reached from itself through plan-node inputs.
C11_PlanAcyclic ==
    \A f \in FrameIds :
        /\ frames[f].op.kind # "FrameNode"
           => \A g \in PlanInputs(f) :
                  g \in FrameIds /\ g < f /\ IdValue(g) < IdValue(f)
        /\ f \notin Ancestors(PlanInputs(f), Len(frames))

\* a frame was built over the unexecuted projection of frame 1: a chain of
\* two plan nodes
C11_Witness ==
    /\ Len(frames) = 4
    /\ frames[4].op.kind = "TransformNode"
    /\ frames[4].op.input = <<3>>
    /\ frames[3].op.input = <<1>>
    /\ IdValue(4) = 4

(***************************************************************************)
(* join                                                                    *)
(***************************************************************************)
NonKey(columns, on) == SelectSeq(columns, LAMBDA c : ~Contains(on, c))
JoinCall(f, g, on) == Room /\ join(f, g, "inner", on, FALSE, <<"_x", "_y">>)

\* C12: a join that returns builds a frame whose columns are the keys, each
\* once, then the left frame's non-key columns, then the right frame's; a
\* non-key column carries its side's suffix exactly when its name is a
\* non-key column of both frames; there is one dtype per column and the
\* keys' dtypes are the left frame's; the Join node names the two operands
\* themselves, which the call leaves as they were.
C12_JoinColumns ==
    [][\A f \in handles, g \in handles, i \in 1..Len(OnArgs) :
          (JoinCall(f, g, OnArgs[i]) /\ last' = "ok")
          => LET j == frames'[Len(frames) + 1]
                 on == OnArgs[i].v
                 lrest == NonKey(frames[f].columns, on)
                 rrest == NonKey(frames[g].columns, on)
                 both == Range(lrest) \cap Range(rrest)
                 named(c, suffix) == IF c \in both THEN c \o suffix ELSE c
             IN  /\ Len(j.columns) = Len(on) + Len(lrest) + Len(rrest)
                 /\ Len(j.dtypes) = Len(j.columns)
                 /\ \A k \in 1..Len(on) :
                        /\ j.columns[k] = on[k]
                        /\ j.dtypes[k] = [name  |-> on[k],
                                          dtype |-> Lookup(frames[f].dtypes, on[k])]
                        /\ \A p \in 1..Len(j.columns) : j.columns[p] = on[k] => p = k
                 /\ \A k \in 1..Len(lrest) :
                        /\ j.columns[Len(on) + k] = named(lrest[k], "_x")
                        /\ j.dtypes[Len(on) + k].dtype = Lookup(frames[f].dtypes, lrest[k])
                 /\ \A k \in 1..Len(rrest) :
                        /\ j.columns[Len(on) + Len(lrest) + k] = named(rrest[k], "_y")
                        /\ j.dtypes[Len(on) + Len(lrest) + k].dtype
                               = Lookup(frames[g].dtypes, rrest[k])
                 /\ j.op.kind = "JoinNode"
                 /\ j.op.input = <<f, g>>
                 /\ j.op.on = on
                 /\ \A h \in FrameIds : frames'[h] = frames[h]]_vars

\* frame 1 joined on b: with its projection on b (no shared non-key column),
\* or with itself (a is a non-key column of both sides)
C12_Witness ==
    /\ Len(frames) = 4
    /\ frames[4].op.kind = "JoinNode"
    /\ \/ frames[4].op.input = <<1, 3>> /\ frames[4].columns = <<"b", "a">>
       \/ frames[4].op.input = <<1, 1>> /\ frames[4].columns = <<"b", "a_x", "a_y">>
    /\ last = "ok"

\* C13: join without 'on' raises the error of the unsupported shapes
\* (NotImplementedError), builds no frame and changes no frame.
C13_JoinWithoutOnUnsupported ==
    [][\A f \in handles, g \in handles :
          JoinCall(f, g, None)
          => /\ last' = "NotImplementedError"
             /\ frames' = frames
             /\ next_id' = next_id]_vars

(***************************************************************************)
(* Row-wise union                                                          *)
(***************************************************************************)
UnionCall(f, others, a) ==
    /\ Room
    /\ a.axis = 0
    /\ a.sort => \A g \in {f} \cup Range(others) : Sortable(frames[g].columns)
    /\ _concat(f, a.axis, others, a.join_kind, a.sort, a.ignore_index)

RECURSIVE Dedup(_)
\* the names of a list in the order of their first appearance
Dedup(names) ==
    IF Len(names) = 0 THEN <<>>
    ELSE LET front == Dedup(SubSeq(names, 1, Len(names) - 1))
             x == names[Len(names)]
         IN  IF Contains(front, x) THEN front ELSE Append(front, x)
RECURSIVE ColumnsOfAll(_)
ColumnsOfAll(fs) ==
    IF Len(fs) = 0 THEN <<>> ELSE frames[Head(fs)].columns \o ColumnsOfAll(Tail(fs))

\* C14: a row-wise union that returns has, under join="outer", the union of
\* the inputs' columns in the order of first appearance (sorted by name when
\* sort is set), and under join="inner" exactly the columns every input has;
\* every aligned frame projects an output column its input lacks as a null
\* literal and one its input has as that column; the result has one dtype
\* per output column, in the columns' order.
C14_UnionSchema ==
    [][\A f \in handles, others \in OtherFrames, a \in ConcatArgs :
          (UnionCall(f, others, a) /\ last' = "ok")
          => LET all == <<f>> \o others
                 n == Len(frames)
                 res == frames'[n + Len(all) + 1]
                 iw == Len(res.table_cols) - Len(res.columns)
                 union == Dedup(ColumnsOfAll(all))
             IN  /\ a.join_kind = "outer"
                    => res.columns = IF a.sort THEN sorted(union) ELSE union
                 /\ a.join_kind = "inner"
                    => /\ Range(res.columns)
                           = {c \in Range(union) :
                                 \A k \in 1..Len(all) : Contains(frames[all[k]].columns, c)}
                       /\ res.columns = Dedup(res.columns)
                 /\ \A k \in 1..Len(all) : \A p \in 1..Len(res.columns) :
                        LET c == res.columns[p]
                            e == DictGet(frames'[n + k].op.exprs, c)
                        IN  IF Contains(frames[all[k]].columns, c)
                            THEN e = ref(all[k], c)
                            ELSE e = LiteralExpr(None)
                 /\ Len(res.dtypes) = iw + Len(res.columns)
                 /\ \A p \in 1..Len(res.columns) :
                        res.dtypes[iw + p].name = res.columns[p]]_vars

(***************************************************************************)
(* groupby_agg                                                             *)
(***************************************************************************)
GroupbyCall(f, by, a) ==
    Room /\ groupby_agg(f, by, a.axis, a.agg, a.groupby_args)

RECURSIVE MaskChain(_)
\* f and the frames under it, as long as the plan nodes are column-only masks
MaskChain(f) ==
    IF /\ frames[f].op.kind = "MaskNode"
       /\ IsNone(frames[f].op.row_indices)
       /\ IsNone(frames[f].op.row_numeric_idx)
    THEN {f} \cup MaskChain(frames[f].op.input[1])
    ELSE {f}
\* by is a pure projection of a frame that self is, or is a pure projection of
SharesBase(self, by) == (MaskChain(by) \ {by}) \cap MaskChain(self) # {}

\* C19: groupby_agg raises NotImplementedError, builds no frame and changes
\* no frame when axis is not 0, a level is given, by is not a frame handle,
\* or by and self are not pure projections of a shared base.
C19_GroupbyUnsupported ==
    [][\A f \in handles, by \in ByArgs, i \in 1..Len(GroupbyArgs) :
          LET a == GroupbyArgs[i] IN
          (/\ GroupbyCall(f, by, a)
           /\ \/ a.axis # 0
              \/ ~IsNone(a.groupby_args.level)
              \/ ~by.qc
              \/ by.qc /\ ~SharesBase(f, by.frame))
          => /\ last' = "NotImplementedError"
             /\ frames' = frames
             /\ next_id' = next_id]_vars

RECURSIVE AggNames(_)
\* the output names of a per-column mapping, entry by entry
AggNames(entries) ==
    IF Len(entries) = 0 THEN <<>>
    ELSE LET e == entries[Len(entries)]
         IN  AggNames(SubSeq(entries, 1, Len(entries) - 1))
             \o (IF IsA(e.val, "list")
                 THEN [k \in 1..Len(e.val.items) |-> e.key \o " " \o e.val.items[k]]
                 ELSE <<e.key>>)

\* C20: a groupby_agg that returns builds a frame with the group keys first,
\* as its index columns under as_index and as its leading columns otherwise,
\* then the aggregated columns: for one aggregate name the non-key columns
\* of self, each once and in order; for a mapping one column "<col> <agg>"
\* per entry of a list of aggregates; with one dtype per index column and
\* data column.
C20_GroupbySchema ==
    [][\A f \in handles, by \in ByArgs, i \in 1..Len(GroupbyArgs) :
          LET a == GroupbyArgs[i] IN
          (GroupbyCall(f, by, a) /\ last' = "ok")
          => LET j == frames'[Len(frames) + 1]
                 keys == frames[by.frame].columns
                 lead == IF a.groupby_args.as_index THEN 0 ELSE Len(keys)
                 aggregated == SubSeq(j.columns, lead + 1, Len(j.columns))
                 nonkey == SelectSeq(frames[f].columns, LAMBDA c : ~Contains(keys, c))
             IN  /\ j.op.kind = "GroupbyAggNode"
                 /\ IF a.groupby_args.as_index
                    THEN j.index_cols = Some(keys)
                    ELSE j.index_cols = None /\ SubSeq(j.columns, 1, lead) = keys
                 /\ j.table_cols = keys \o aggregated
                 /\ IsA(a.agg, "str") => aggregated = nonkey
                 /\ IsA(a.agg, "dict") => aggregated = AggNames(a.agg.entries)
                 /\ Len(j.dtypes) = Len(keys) + Len(aggregated)
                 /\ \A p \in 1..Len(j.dtypes) : j.dtypes[p].name = j.table_cols[p]]_vars

\* frame 1 grouped by its projection on b: min and max of b under as_index,
\* or the sum of the other columns with b as a leading column
C20_Witness ==
    /\ Len(frames) = 4
    /\ frames[4].op.kind = "GroupbyAggNode"
    /\ frames[4].op.input = <<1>>
    /\ \/ /\ frames[4].index_cols = Some(<<"b">>)
          /\ frames[4].columns = <<"b min", "b max">>
       \/ /\ frames[4].index_cols = None
          /\ frames[4].columns = <<"b", "a">>
    /\ last = "ok"

(***************************************************************************)
(* SpecChains: frames that share ancestors through chains of projections,  *)
(* then calls of the operations that take several frames.                  *)
(***************************************************************************)
\* Frame 1 (A) is a loaded table with columns a, b.  Frame 2 is an executed
\* result with two index columns a, b and the data column c.  Then, as the
\* calls build them:
\*   3 = A.mask(col_indices=["b"])         4 = A.mask(col_indices=["a"])
\*   5 = frame 3 .mask(col_indices=["b"])  6 = A.mask(row_numeric_idx=[0])
\*   7 = frame 4 .fillna(value=0, axis=0)
\*   8 = frame 3 ._concat(axis=1, [frame 4])
ChainArena ==
    LET a4 == InputRefExpr(4, "a", "int64")
    IN  << __init__(1, 1, Some(<<1>>), SourceIndex(1), <<"a", "b">>,
                    ListArg(<<"int64", "float64">>), None, None),
           __init__(2, 2, Some(<<2>>), None, <<"c">>,
                    ListArg(<<"int64", "float64", "int64">>), None, Some(<<"a", "b">>)),
           __init__(3, 3, None, None, <<"b">>, ListArg(<<"float64">>),
                    Some(MaskNode(1, None, None, <<"b">>)), None),
           __init__(4, 4, None, None, <<"a">>, ListArg(<<"int64">>),
                    Some(MaskNode(1, None, None, <<"a">>)), None),
           __init__(5, 5, None, None, <<"b">>, ListArg(<<"float64">>),
                    Some(MaskNode(3, None, None, <<"b">>)), None),
           __init__(6, 6, None, None, <<"a", "b">>, ListArg(<<"int64", "float64">>),
                    Some(MaskNode(1, None, Some(<<0>>), <<"a", "b">>)), None),
           __init__(7, 7, None, None, <<"a">>, ListArg(<<"int64">>),
                    Some(TransformNode(4,
                        <<[name |-> "a",
                           expr |-> build_if_then_else(is_null(a4), LiteralExpr(PyInt(0)),
                                                       a4, "int64")]>>, TRUE)), None),
           __init__(8, 8, None, None, <<"b", "a">>, ListArg(<<"float64", "int64">>),
                    Some(TransformNode(3,
                        <<[name |-> "b", expr |-> InputRefExpr(1, "b", "float64")],
                          [name |-> "a", expr |-> InputRefExpr(1, "a", "int64")]>>,
                        TRUE)), None) >>

InitChains ==
    /\ DispatcherStart
    /\ frames = ChainArena
    /\ parts = [p \in 1..2 |-> SourcePartition(p)]
    /\ registered = [p \in 1..2 |-> 0]
    /\ next_id = Len(ChainArena) + 1
    /\ index_reads = [f \in 1..Len(ChainArena) |-> 0]
    /\ last = "ok"
    /\ threads = <<>>
    /\ made = <<>>
    /\ handles = 1..Len(ChainArena)

ChainRoom ==
    /\ Len(frames) < Len(ChainArena) + MaxBuilt
    /\ next_id - 1 - Len(frames) < MaxDropped

BinOpCall(f, g, fill_value) ==
    /\ ChainRoom
    /\ Sortable(frames[f].columns) /\ Sortable(frames[g].columns)
    /\ bin_op(f, PyFrame(g), "add", fill_value)
ConcatColumnsCall(f, others) ==
    ChainRoom /\ _concat(f, 1, others, "outer", FALSE, FALSE)
UnionRowsCall(f, others, join_kind, ignore_index) ==
    ChainRoom /\ _concat(f, 0, others, join_kind, FALSE, ignore_index)
GroupbyChainCall(f, by, a) ==
    ChainRoom /\ groupby_agg(f, [qc |-> TRUE, frame |-> by], a.axis, a.agg, a.groupby_args)

BinOpFrames == \E f \in handles, g \in handles, fill_value \in {None, PyInt(0)} :
    BinOpCall(f, g, fill_value)
ConcatColumns == \E f \in handles, g \in handles : ConcatColumnsCall(f, <<g>>)
UnionRows == \E f \in handles, g \in handles, join_kind \in {"outer", "inner"},
                ignore_index \in BOOLEAN :
    UnionRowsCall(f, <<g>>, join_kind, ignore_index)
GroupbyChains == \E f \in handles, by \in handles, i \in 1..Len(GroupbyArgs) :
    GroupbyChainCall(f, by, GroupbyArgs[i])
ExecuteChains == \E f \in handles :
    /\ Len(parts) < 2 + MaxExecuted
    /\ _execute(f)

NextChains ==
    \/ BinOpFrames
    \/ ConcatColumns
    \/ UnionRows
    \/ GroupbyChains
    \/ ExecuteChains

SpecChains == InitChains /\ [][NextChains]_vars

RECURSIVE NarrowestIndex(_)
\* the minimum index width of the frames fs; a frame without index columns
\* has the one implicit index column
NarrowestIndex(fs) ==
    LET w == IF IsNone(frames[Head(fs)].index_cols) THEN 1
             ELSE Len(frames[Head(fs)].index_cols.v)
    IN  IF Len(fs) = 1 THEN w
        ELSE LET r == NarrowestIndex(Tail(fs)) IN IF w < r THEN w ELSE r

\* C15: in a row-wise union without ignore_index that returns, every aligned
\* frame has the same data columns and exactly as many index columns as the
\* narrowest index among the inputs, and its Transform node has an
\* expression for each of its index columns and data columns.
C15_AlignedSchemas ==
    [][\A f \in handles, g \in handles, join_kind \in {"outer", "inner"} :
          (UnionRowsCall(f, <<g>>, join_kind, FALSE) /\ last' = "ok")
          => LET n == Len(frames)
                 w == NarrowestIndex(<<f, g>>)
             IN  \A k \in 1..2 :
                    LET al == frames'[n + k] IN
                    /\ al.op.kind = "TransformNode"
                    /\ al.columns = frames'[n + 1].columns
                    /\ ~IsNone(al.index_cols)
                    /\ Len(al.index_cols.v) = w
                    /\ \A c \in Range(al.table_cols) : DictHas(al.op.exprs, c)]_vars

(***************************************************************************)
(* Common projection base                                                  *)
(***************************************************************************)
\* a column-only Mask node or a Transform node: a pure projection
PureProjection(f) ==
    \/ frames[f].op.kind = "TransformNode"
    \/ /\ frames[f].op.kind = "MaskNode"
       /\ IsNone(frames[f].op.row_indices)
       /\ IsNone(frames[f].op.row_numeric_idx)
RECURSIVE ChainUp(_)
\* the frames of S and, level by level, the inputs of their pure projections
ChainUp(S) ==
    LET up == S \cup {frames[x].op.input[1] : x \in {y \in S : PureProjection(y)}}
    IN  IF up = S THEN S ELSE ChainUp(up)
ChainOf(f) == ChainUp({f})
\* the frames of f's chain strictly below its ancestor A
Below(f, A) == {x \in ChainOf(f) : x # A /\ A \in ChainOf(x)}
\* f and g reach A through pure projections, along chains that meet at A
MeetAt(f, g, A) ==
    /\ A \in ChainOf(f) \cap ChainOf(g)
    /\ f # A /\ g # A
    /\ Below(f, A) \cap Below(g, A) = {}

\* C16: B.bin_op(C), for B and C that reach a frame A through chains of
\* column-only masks and transforms that meet at A, returns a frame whose
\* plan node is one Transform over A with expressions over A alone, and
\* whose columns are the name-sorted union of B's and C's; no partition is
\* created or registered and no existing frame changes.
C16_RebaseToCommonAncestor ==
    [][\A f \in handles, g \in handles :
       \A A \in ChainOf(f) \cap ChainOf(g), fill_value \in {None, PyInt(0)} :
          (ChainRoom /\ MeetAt(f, g, A) /\ BinOpCall(f, g, fill_value))
          => LET j == frames'[Len(frames) + 1] IN
             /\ last' = "ok"
             /\ Len(frames') = Len(frames) + 1
             /\ j.op.kind = "TransformNode"
             /\ j.op.input = <<A>>
             /\ DictFrames(j.op.exprs) \subseteq {A}
             /\ j.columns = sorted(Dedup(frames[f].columns \o frames[g].columns))
             /\ DictKeys(j.op.exprs) = j.columns
             /\ parts' = parts /\ registered' = registered
             /\ \A h \in FrameIds : frames'[h] = frames[h]]_vars

\* C17: when the chains of pure projections of two frames share no frame, a
\* frame-to-frame bin_op and a column-wise _concat raise NotImplementedError,
\* build no frame and change none; and whenever
\* _find_common_projections_base returns a frame, that frame is on the chain
\* of both operands.
C17_NoCommonBaseUnsupported ==
    [][/\ \A f \in FrameIds, g \in FrameIds :
             LET base == _find_common_projections_base(f, g)
             IN  ~IsNone(base) => base.v \in ChainOf(f) \cap ChainOf(g)
       /\ \A f \in handles, g \in handles :
             (/\ ChainRoom
              /\ ChainOf(f) \cap ChainOf(g) = {}
              /\ \/ \E fill_value \in {None, PyInt(0)} : BinOpCall(f, g, fill_value)
                 \/ ConcatColumnsCall(f, <<g>>))
             => /\ last' = "NotImplementedError"
                /\ frames' = frames
                /\ next_id' = next_id
                /\ parts' = parts]_vars

\* an operation on two frames without a common base was refused: frame 3 is
\* a projection of frame 1, of which frame 6 keeps only some rows, and frame
\* 2 comes from another source
C17_Witness ==
    /\ last = "NotImplementedError"
    /\ frames = ChainArena
    /\ ChainOf(3) \cap ChainOf(6) = {}
    /\ ChainOf(3) \cap ChainOf(2) = {}
    /\ ChainOf(3) = {1, 3}

(***************************************************************************)
(* groupby_agg over projections                                            *)
(***************************************************************************)
\* x is a column-only Mask directly over base
DirectMask(x, base) ==
    /\ frames[x].op.kind = "MaskNode"
    /\ frames[x].op.input = <<base>>
    /\ IsNone(frames[x].op.row_indices)
    /\ IsNone(frames[x].op.row_numeric_idx)
\* axis 0, no level, and one aggregate name or a mapping over columns of f
SupportedAgg(f, a) ==
    /\ a.axis = 0
    /\ IsNone(a.groupby_args.level)
    /\ \/ IsA(a.agg, "str")
       \/ /\ IsA(a.agg, "dict")
          /\ \A k \in 1..Len(a.agg.entries) : Contains(frames[f].columns, a.agg.entries[k].key)

\* C18 as stated: groupby_agg accepts every by that is a pure projection,
\* through one or more column-only Mask nodes, of a frame that self is or is
\* such a projection of, and builds the GroupByAggregate node over that
\* shared frame.
C18_GroupbyAcceptsChains ==
    [][\A f \in handles, by \in handles, i \in 1..Len(GroupbyArgs) :
          LET a == GroupbyArgs[i] IN
          (/\ ChainRoom
           /\ SupportedAgg(f, a)
           /\ SharesBase(f, by)
           /\ GroupbyChainCall(f, by, a))
          => /\ last' = "ok"
             /\ Len(frames') = Len(frames) + 1
             /\ frames'[Len(frames) + 1].op.kind = "GroupbyAggNode"
             /\ frames'[Len(frames) + 1].op.input[1]
                    \in (MaskChain(by) \ {by}) \cap MaskChain(f)]_vars

\* C18, amended: groupby_agg accepts by exactly when by is a column-only Mask
\* directly over a frame and self is that frame or a column-only Mask
\* directly over it, and then builds the GroupByAggregate node over that
\* frame; otherwise the call raises and builds no frame, with
\* NotImplementedError when by or self reaches the shared frame only through
\* a longer chain of Mask nodes.
C18_GroupbyAcceptsDirectMasks ==
    [][\A f \in handles, by \in handles, i \in 1..Len(GroupbyArgs) :
          LET a == GroupbyArgs[i] IN
          (/\ ChainRoom
           /\ SupportedAgg(f, a)
           /\ GroupbyChainCall(f, by, a))
          => IF \E base \in FrameIds :
                    DirectMask(by, base) /\ (f = base \/ DirectMask(f, base))
             THEN /\ last' = "ok"
                  /\ Len(frames') = Len(frames) + 1
                  /\ frames'[Len(frames) + 1].op.kind = "GroupbyAggNode"
                  /\ frames'[Len(frames) + 1].op.input = frames[by].op.input
                  /\ frames'[Len(frames) + 1].op.by = frames[by].columns
             ELSE /\ last' # "ok"
                  /\ frames' = frames
                  /\ SharesBase(f, by) => last' = "NotImplementedError"]_vars

\* a frame was grouped by a mask directly over frame 1 (frame 3: b), the
\* receiver being frame 1 or its mask on a (frame 4)
C18_Witness ==
    /\ Len(frames) = 9
    /\ frames[9].op.kind = "GroupbyAggNode"
    /\ frames[9].op.input = <<1>>
    /\ frames[9].op.by = <<"b">>
    /\ frames[9].columns = <<"a">>
    /\ frames[3].op.kind = "MaskNode"
    /\ last = "ok"

(***************************************************************************)
(* fillna                                                                  *)
(***************************************************************************)
FillnaCall(f, a) == Room /\ fillna(f, a.value, a.method, a.axis, a.limit, a.downcast)
\* a fill value that is neither a scalar nor a per-column mapping
NoFillValue(value) == IsNone(value) \/ IsA(value, "list")

\* C21: fillna raises NotImplementedError, builds no frame, spends no id and
\* touches no partition when method, limit or downcast is given or when the
\* fill value is a list or None.
C21_FillnaUnsupported ==
    [][\A f \in handles, i \in 1..Len(FillnaArgs) :
          LET a == FillnaArgs[i] IN
          (/\ FillnaCall(f, a)
           /\ \/ ~IsNone(a.method)
              \/ ~IsNone(a.limit)
              \/ ~IsNone(a.downcast)
              \/ NoFillValue(a.value))
          => /\ last' = "NotImplementedError"
             /\ frames' = frames
             /\ next_id' = next_id
             /\ parts' = parts
             /\ handles' = handles]_vars

\* a call was refused as unsupported before any frame was built
C21_Witness ==
    /\ last = "NotImplementedError"
    /\ Len(frames) = 3
    /\ next_id = 4
    /\ \E i \in 1..Len(FillnaArgs) : ~IsNone(FillnaArgs[i].method)
    /\ \E i \in 1..Len(FillnaArgs) : NoFillValue(FillnaArgs[i].value)

\* e is a plain reference to column col of frame f
IsRefTo(e, f, col) == e.k = "ref" /\ e.frame = f /\ e.col = col
\* e is Conditional(isNull(col), Literal(value), col) over frame f
IsFillOf(e, f, col, value) ==
    /\ e.k = "op" /\ e.op = "CASE" /\ Len(e.operands) = 3
    /\ e.operands[1].k = "op" /\ e.operands[1].op = "is_null"
    /\ Len(e.operands[1].operands) = 1
    /\ IsRefTo(e.operands[1].operands[1], f, col)
    /\ e.operands[2].k = "lit" /\ e.operands[2].val = value
    /\ IsRefTo(e.operands[3], f, col)
\* a scalar fill value and a per-column mapping
FillValues == <<PyInt(0), PyDict(<<[key |-> "b", val |-> PyInt(0)]>>)>>
\* the frame fillna is to build for receiver f and fill value value
FilledFrame(j, f, value) ==
    /\ j.columns = frames[f].columns
    /\ j.index_cols = frames[f].index_cols
    /\ j.op.kind = "TransformNode"
    /\ j.op.input = <<f>>
    /\ \A i \in 1..Len(j.columns) :
          LET c == j.columns[i]
              e == DictGet(j.op.exprs, c)
          IN  /\ DictHas(j.op.exprs, c)
              /\ IF IsA(value, "dict")
                 THEN IF FillHas(value, c)
                      THEN IsFillOf(e, f, c, FillValueFor(value, c))
                      ELSE IsRefTo(e, f, c)
                 ELSE IsFillOf(e, f, c, value)

\* C22: fillna called with a fill value alone, every other parameter at its
\* default (method=None, axis=None, limit=None, downcast=None), returns a new
\* frame with the receiver's columns and index columns whose plan node is a
\* Transform over the receiver: a scalar fills every column, a mapping the
\* columns it names, the other columns being references to themselves.
C22_FillnaValueOnly ==
    [][\A f \in handles, v \in 1..Len(FillValues) :
          (Room /\ fillna(f, FillValues[v], None, None, None, None))
          => /\ last' = "ok"
             /\ Len(frames') = Len(frames) + 1
             /\ FilledFrame(frames'[Len(frames) + 1], f, FillValues[v])]_vars

(***************************************************************************)
(* SpecDispatcher: the configuration changes and IO calls are dispatched.  *)
(* Engine and Backend call their subscriber, _update_engine, when their    *)
(* value changes; IsExperimental has no subscriber.                        *)
(***************************************************************************)
InitDispatcher ==
    /\ DispatcherStart
    /\ last = Outcome("_update_engine", "ok", <<>>, <<"PandasOnRayFactory">>)
    /\ frames = <<>>
    /\ next_id = 1
    /\ parts = <<>>
    /\ index_reads = <<>>
    /\ registered = <<>>
    /\ threads = <<>>
    /\ made = <<>>
    /\ handles = {}

FrameVars == <<frames, next_id, parts, index_reads, registered, threads, made, handles>>
IoNames == {"from_pandas", "read_csv", "to_sql"}

\* the subscriber runs with the new value in place
UpdateCall(cfg) == config' = cfg /\ _update_engine(cfg) /\ UNCHANGED FrameVars

PutBackend == \E b \in Backends \ {config.Backend} :
    UpdateCall([config EXCEPT !.Backend = b])
PutEngine == \E e \in Engines \ {config.Engine} :
    UpdateCall([config EXCEPT !.Engine = e])
PutIsExperimental ==
    /\ config' = [config EXCEPT !.IsExperimental = ~config.IsExperimental]
    /\ last' = Outcome("put", "ok", <<>>, <<>>)
    /\ UNCHANGED <<__engine, io_cls>>
    /\ UNCHANGED FrameVars
DispatchIo == \E name \in IoNames : Dispatch(name) /\ UNCHANGED FrameVars

NextDispatcher ==
    \/ PutBackend
    \/ PutEngine
    \/ PutIsExperimental
    \/ DispatchIo

SpecDispatcher == InitDispatcher /\ [][NextDispatcher]_vars

\* the configurations a change of Backend or Engine can leave
ConfigsAfterPut ==
    {[config EXCEPT !.Backend = b] : b \in Backends \ {config.Backend}}
    \cup {[config EXCEPT !.Engine = e] : e \in Engines \ {config.Engine}}
\* the factories module has no factory for the configuration
NoFactory(cfg) == (get_current_backend(cfg) \o "Factory") \notin Factories

\* C23: when no factory exists for the new configuration, _update_engine in
\* non-experimental mode raises FactoryNotFoundError with a message that
\* holds the backend and the engine, and the selected engine stays as it
\* was; in experimental mode it raises nothing and selects the stub factory
\* under the name of the missing factory; every IO call on the stub factory
\* raises NotImplementedError with a message that holds that name; prepare()
\* is called only on a factory that was found, the one that is selected.
C23_BackendSelection ==
    [][/\ \A cfg \in ConfigsAfterPut :
             UpdateCall(cfg)
             => /\ (NoFactory(cfg) /\ ~cfg.IsExperimental)
                   => /\ last'.exc = "FactoryNotFoundError"
                      /\ cfg.Backend \in Range(last'.msg)
                      /\ cfg.Engine \in Range(last'.msg)
                      /\ __engine' = __engine
                      /\ io_cls' = io_cls
                /\ (NoFactory(cfg) /\ cfg.IsExperimental)
                   => /\ last'.exc = "ok"
                      /\ __engine' = "StubFactory"
                      /\ io_cls' = get_current_backend(cfg) \o "Factory"
                /\ last'.prepared # <<>>
                   => /\ ~NoFactory(cfg)
                      /\ last'.prepared = <<__engine'>>
                      /\ __engine' \in Factories
       /\ \A name \in IoNames :
             (__engine = "StubFactory" /\ Dispatch(name) /\ UNCHANGED FrameVars)
             => /\ last'.exc = "NotImplementedError"
                /\ io_cls \in Range(last'.msg)
                /\ name \in Range(last'.msg)
       /\ io_cls' # io_cls => __engine' = "StubFactory"
       /\ last'.prepared # <<>> => last'.op = "_update_engine"]_vars

\* the stub factory was selected in experimental mode, an IO call on it was
\* refused under the missing factory's name, and a later change in
\* non-experimental mode failed and left the stub selected
C23_Witness ==
    /\ last.exc = "FactoryNotFoundError"
    /\ __engine = "StubFactory"
    /\ io_cls = "ExperimentalPandasOnPythonFactory"
    /\ ~config.IsExperimental
    /\ config.Backend = "Omnisci"

(***************************************************************************)
(* Rewriting expressions to the base                                       *)
(***************************************************************************)
\* an expression map over two frames: under each column name of f, the sum
\* of that column and the first column of g
SumExprs(f, g) ==
    LET cols == frames[f].columns
    IN  DictBuild(cols,
                  [i \in 1..Len(cols) |->
                      ExprBinOp(ref(f, cols[i]), ref(g, frames[g].columns[1]), "add")],
                  Len(cols))
\* every Transform node on the chains of fs has expressions over its input
SoundChains(fs) ==
    \A x \in ChainUp(fs) :
        frames[x].op.kind = "TransformNode"
        => DictFrames(frames[x].op.exprs) \subseteq Range(frames[x].op.input)

\* C24: for expressions over two frames and a base on the projection chain
\* of both, the loop of _translate_exprs_to_base ends after at most as many
\* iterations as there are frames; when it returns, every expression
\* references base alone and the result has the keys of the input map in
\* the same order; it returns whenever the Transform nodes on the chains
\* have expressions over their own inputs; and after the calls of bin_op and
\* column-wise _concat, which run the rewrite, every frame that existed
\* has the plan node it was built with, unless it was executed since.
C24_TranslateTerminates ==
    /\ \A f \in handles, g \in handles :
          \A base \in ChainOf(f) \cap ChainOf(g) :
             LET exprs == SumExprs(f, g)
                 rounds == LoopRounds(exprs, DictFrames(exprs) \ {base}, base,
                                      Len(frames))
                 res == _translate_exprs_to_base(exprs, base)
             IN  /\ rounds >= 0
                 /\ res.errs = {}
                    => /\ DictFrames(res.exprs) \subseteq {base}
                       /\ DictKeys(res.exprs) = DictKeys(exprs)
                 /\ SoundChains({f, g}) => res.errs = {}
    /\ \A h \in 1..Len(ChainArena) :
          frames[h].op \in {ChainArena[h].op, FrameNode(h)}

\* a sum of the two-mask chain over b (frame 5) and the filled mask over a
\* (frame 7) was rewritten to frame 1 in two iterations
C24_Witness ==
    /\ Len(frames) = 9
    /\ frames[9].op.kind = "TransformNode"
    /\ frames[9].op.input = <<1>>
    /\ DictFrames(frames[9].op.exprs) = {1}
    /\ LoopRounds(SumExprs(5, 7), {5, 7}, 1, Len(frames)) = 2
    /\ LET res == _translate_exprs_to_base(SumExprs(5, 7), 1)
       IN  res.errs = {} /\ DictFrames(res.exprs) = {1}

(***************************************************************************)
(* Registration with the engine                                            *)
(***************************************************************************)
\* C25: a trigger that runs the plan of a frame whose referenced frames have
\* one partition each leaves every partition of those frames with an engine
\* handle, also when the engine then rejects the plan, and registers exactly
\* the ones that had none; a partition that has an engine handle keeps it
\* and is not registered again; no partition is ever registered twice.
C25_RegisteredOnce ==
    [][/\ \A f \in FrameIds :
             (/\ frames[f].op.kind # "FrameNode"
              /\ \A g \in CollectFrames(frames[f].op) : Len(frames[g].partitions.v) = 1
              /\ Trigger(f))
             => \A p \in PartitionsOf(CollectFrames(frames[f].op)) :
                   /\ ~IsNone(parts'[p].frame_id)
                   /\ registered'[p] = registered[p] + (IF IsNone(parts[p].frame_id) THEN 1 ELSE 0)
       /\ \A p \in 1..Len(parts) :
             ~IsNone(parts[p].frame_id)
             => /\ parts'[p].frame_id = parts[p].frame_id
                /\ registered'[p] = registered[p]
       /\ \A p \in 1..Len(parts') : registered'[p] <= 1]_vars

\* two plans over frame 1 were executed: its partition was registered by the
\* first run and found registered by the second
C25_Witness ==
    /\ Len(frames) = 4
    /\ frames[3].op = FrameNode(3) /\ frames[4].op = FrameNode(4)
    /\ Len(parts) = 4
    /\ registered = <<1, 0, 0, 0>>
    /\ ~IsNone(parts[1].frame_id)
    /\ last = "ok"

(***************************************************************************)
(* Transform nodes                                                         *)
(***************************************************************************)
\* C26: the expressions of every Transform node reference the node's own
\* input frame alone, whichever operation built the node.
C26_TransformRefsOwnInput ==
    \A f \in FrameIds :
        frames[f].op.kind = "TransformNode"
        => DictFrames(frames[f].op.exprs) \subseteq Range(frames[f].op.input)

(***************************************************************************)
(* bin_op                                                                  *)
(***************************************************************************)
\* the exceptions a call of a frame operation ends with
Raised == {"ValueError", "NotImplementedError", "AssertionError", "KeyError",
           "AttributeError", "TypeError"}

\* C27: bin_op with a number, a list, a frame or any other value as the other
\* operand returns a new frame or raises an exception: it never ends without
\* a result.
C27_BinOpTotal ==
    [][\A f \in handles, fill_value \in {None, PyInt(0)} :
          (/\ Room
           /\ \/ \E i \in 1..Len(BinOpOthers) : bin_op(f, BinOpOthers[i], "add", fill_value)
              \/ \E g \in handles :
                    /\ Sortable(frames[f].columns) /\ Sortable(frames[g].columns)
                    /\ bin_op(f, PyFrame(g), "add", fill_value))
          => \/ last' = "ok" /\ Len(frames') = Len(frames) + 1
             \/ last' \in Raised /\ frames' = frames]_vars

(***************************************************************************)
(* Failed execution                                                        *)
(***************************************************************************)
\* how a trigger ends when run_exec_plan raised
RunFailed == {"EngineError", "NotImplementedError"}

\* C28: when a trigger on a frame that is not materialized ends with the
\* exception run_exec_plan raised, the frame is exactly what it was (plan
\* node, partitions, index cache), no partition was created, and an
\* _execute of the frame after that runs the plan again.
C28_FailedExecuteKeepsPlan ==
    [][\A f \in FrameIds :
          (frames[f].op.kind # "FrameNode" /\ Trigger(f) /\ last' \in RunFailed)
          => /\ frames'[f] = frames[f]
             /\ Len(parts') = Len(parts)
             /\ index_reads' = index_reads
             /\ \A o \in ExecOutcomes(f)' : o.ran]_vars

\* the engine rejected the plan of frame 3 after the partition of frame 1 was
\* registered: frame 3 still has its Mask node and no partitions
C28_Witness ==
    /\ last = "EngineError"
    /\ frames[3].op.kind = "MaskNode"
    /\ IsNone(frames[3].partitions)
    /\ registered[1] = 1
    /\ Len(parts) = 2

(***************************************************************************)
(* What an execution changes                                               *)
(***************************************************************************)
\* C29: a trigger on frame F leaves every other frame as it was (plan node,
\* partitions, columns, dtypes, index columns, index cache), the frames
\* under F's plan and the frames with a plan node equal to F's included,
\* and changes of F itself nothing but the plan node, the partitions and
\* the index cache.
C29_ExecuteChangesOneFrame ==
    [][\A f \in FrameIds :
          Trigger(f)
          => /\ Len(frames') = Len(frames)
             /\ \A g \in FrameIds \ {f} : frames'[g] = frames[g]
             /\ frames'[f] = [frames[f] EXCEPT !.op = frames'[f].op,
                                               !.partitions = frames'[f].partitions,
                                               !.index_cache = frames'[f].index_cache]]_vars

\* frame 4, built over the unexecuted frame 3, was executed: frame 3 still
\* has its Mask node and no partitions, frame 1 is as it was loaded
C29_Witness ==
    /\ Len(frames) = 4
    /\ frames[4].op = FrameNode(4)
    /\ frames[4].partitions = Some(<<3>>)
    /\ frames[3].op.kind = "MaskNode"
    /\ IsNone(frames[3].partitions)
    /\ frames[1].op = FrameNode(1) /\ frames[1].partitions = Some(<<1>>)
    /\ registered = <<1, 0, 0>>

(***************************************************************************)
(* The assertions of the constructor and of the alignment loop             *)
(***************************************************************************)
\* C30: no call of mask, fillna, dt_year, join, groupby_agg, _concat
\* (_union_all), bin_op, reset_index or _set_columns on the frames at hand
\* fails the constructor's assertion that there are as many dtypes as
\* index columns and data columns together (the one assertion reached
\* after a frame id is taken), and no row-wise union of them fails the
\* 'unexpected index width' assertion of the alignment loop.
C30_ConstructorAssertionHolds ==
    [][PlanCall
       => /\ last' = "AssertionError" => next_id' = next_id
          /\ \A f \in handles, others \in OtherFrames :
                 LET all == <<f>> \o others IN
                 \A k \in 1..Len(all) :
                    AlignFrame(all[k], <<>>, <<>>, FALSE, MinIndexWidth(all)).assert_ok]_vars

====
